---- MODULE Spec2Model ----
(***************************************************************************)
(* A model of the MMI scoring core (packages/mmi-baseball/mmi): the        *)
(* run-expectancy table, the win-probability and leverage model with its   *)
(* memo cache, the z-score scalers and their persistence, the weighted     *)
(* combination, and the request handlers that share the active scaler set. *)
(*                                                                         *)
(* The leverage model and the feature calculators are in fixed point:      *)
(* run values and feature scores in thousandths (1.0 = 1000),              *)
(* probabilities and leverage in millionths (1.0 = 1000000); division      *)
(* floors.  The scalers, the z-scores and the final score are binary       *)
(* floating point with a short mantissa, rounded to nearest even.  The     *)
(* component weights are exact fractions.                                  *)
(***************************************************************************)
EXTENDS Integers, Sequences, FiniteSets, TLC

\* -------------------------------------------------------------------------
\* Fixed-point helpers
\* -------------------------------------------------------------------------
Milli == 10^3
Micro == 10^6

Abs(x) == IF x < 0 THEN -x ELSE x
Min(a, b) == IF a <= b THEN a ELSE b
Max(a, b) == IF a >= b THEN a ELSE b

\* Bisection for the floored square root; a function, so that its arguments
\* are values
IsqrtBetween[n \in Nat, lo \in Nat, hi \in Nat] ==
    IF lo >= hi THEN lo
    ELSE LET mid == (lo + hi + 1) \div 2
         IN  IF mid * mid <= n THEN IsqrtBetween[n, mid, hi]
                               ELSE IsqrtBetween[n, lo, mid - 1]

\* math.sqrt on a non-negative integer, floored
Isqrt(n) == IsqrtBetween[n, 0, 40000]

\* F applied to the value of x: a LET whose definition is evaluated once
Bind(x, F(_)) == CHOOSE r \in { F(v) : v \in {x} } : TRUE

\* a / b rounded toward zero
DivTrunc[a \in Int, b \in Int \ {0}] ==
    IF a >= 0 THEN a \div b ELSE -((-a) \div b)

\* sum() of a list, left to right
SumUpTo[s \in Seq(Int), i \in Nat] ==
    IF i = 0 THEN 0 ELSE SumUpTo[s, i - 1] + s[i]

SumSeq(s) == SumUpTo[s, Len(s)]

\* sum(s) / len(s) if s else 0.0
MeanOrZero[s \in Seq(Int)] ==
    IF s # <<>> THEN SumUpTo[s, Len(s)] \div Len(s) ELSE 0

\* -------------------------------------------------------------------------
\* models.py: BaseState
\* -------------------------------------------------------------------------
BaseState(f, s, t) ==
    [runner_on_first |-> f, runner_on_second |-> s, runner_on_third |-> t]

EmptyBases == BaseState(FALSE, FALSE, FALSE)

AllBaseStates ==
    { BaseState(f, s, t) : f \in BOOLEAN, s \in BOOLEAN, t \in BOOLEAN }

to_code(b) ==
    (IF b.runner_on_first THEN "1" ELSE "_") \o
    (IF b.runner_on_second THEN "2" ELSE "_") \o
    (IF b.runner_on_third THEN "3" ELSE "_")

runners_on_base(b) ==
    (IF b.runner_on_first THEN 1 ELSE 0) +
    (IF b.runner_on_second THEN 1 ELSE 0) +
    (IF b.runner_on_third THEN 1 ELSE 0)

\* -------------------------------------------------------------------------
\* win_prob.py: run expectancy, win probability, leverage index
\* -------------------------------------------------------------------------
\* The rows of the table: outs, base code, expected runs in thousandths
RUN_EXPECTANCY_ROWS ==
    { <<0, "___", 481>>,  <<0, "1__", 859>>,  <<0, "_2_", 1100>>,
      <<0, "__3", 1361>>, <<0, "12_", 1437>>, <<0, "1_3", 1784>>,
      <<0, "_23", 1970>>, <<0, "123", 2292>>,
      <<1, "___", 254>>,  <<1, "1__", 509>>,  <<1, "_2_", 664>>,
      <<1, "__3", 950>>,  <<1, "12_", 888>>,  <<1, "1_3", 1140>>,
      <<1, "_23", 1352>>, <<1, "123", 1541>>,
      <<2, "___", 98>>,   <<2, "1__", 214>>,  <<2, "_2_", 305>>,
      <<2, "__3", 362>>,  <<2, "12_", 421>>,  <<2, "1_3", 561>>,
      <<2, "_23", 570>>,  <<2, "123", 772>> }

\* (outs, base_code) -> expected runs
RUN_EXPECTANCY_MATRIX ==
    [ k \in { <<r[1], r[2]>> : r \in RUN_EXPECTANCY_ROWS } |->
        (CHOOSE r \in RUN_EXPECTANCY_ROWS : r[1] = k[1] /\ r[2] = k[2])[3] ]

\* RUN_EXPECTANCY_MATRIX.get((outs, base_code), 0.0)
get_run_expectancy(outs, base_state) ==
    LET key == <<outs, to_code(base_state)>>
    IN  IF key \in DOMAIN RUN_EXPECTANCY_MATRIX
        THEN RUN_EXPECTANCY_MATRIX[key]
        ELSE 0

\* 1 / (1 + exp(-x)) for x = 0, 0.05, 0.10, ..., 10.0, in millionths
SigmoidStep == 50
SigmoidTable ==
   <<
      500000, 512497, 524979, 537430, 549834, 562177, 574443, 586618,
      598688, 610639, 622459, 634136, 645656, 657010, 668188, 679179,
      689974, 700567, 710950, 721115, 731059, 740775, 750260, 759511,
      768525, 777300, 785835, 794130, 802184, 809998, 817574, 824914,
      832018, 838891, 845535, 851953, 858149, 864127, 869892, 875447,
      880797, 885948, 890903, 895669, 900250, 904651, 908877, 912934,
      916827, 920561, 924142, 927574, 930862, 934011, 937027, 939913,
      942676, 945319, 947846, 950263, 952574, 954783, 956893, 958909,
      960834, 962673, 964429, 966105, 967705, 969231, 970688, 972077,
      973403, 974667, 975873, 977023, 978119, 979164, 980160, 981109,
      982014, 982876, 983698, 984480, 985226, 985936, 986613, 987258,
      987872, 988456, 989013, 989543, 990048, 990529, 990987, 991423,
      991837, 992232, 992608, 992966, 993307, 993631, 993940, 994234,
      994514, 994780, 995033, 995274, 995504, 995722, 995930, 996128,
      996316, 996495, 996665, 996827, 996982, 997128, 997268, 997401,
      997527, 997648, 997762, 997871, 997975, 998073, 998167, 998256,
      998341, 998422, 998499, 998572, 998641, 998708, 998771, 998830,
      998887, 998942, 998993, 999042, 999089, 999133, 999176, 999216,
      999254, 999290, 999325, 999358, 999389, 999419, 999447, 999474,
      999500, 999524, 999547, 999569, 999590, 999610, 999629, 999647,
      999665, 999681, 999697, 999711, 999725, 999739, 999752, 999764,
      999775, 999786, 999797, 999806, 999816, 999825, 999833, 999842,
      999849, 999857, 999864, 999870, 999877, 999883, 999888, 999894,
      999899, 999904, 999909, 999913, 999917, 999921, 999925, 999929,
      999932, 999936, 999939, 999942, 999945, 999947, 999950, 999952,
      999955
   >>

\* _sigmoid(x), x in thousandths: the table, linearly interpolated, mirrored
\* for x < 0 (sigmoid(-x) = 1 - sigmoid(x)) and flat beyond the last entry.
SigmoidAt[x \in Int] ==
    LET ax  == Abs(x)
        i   == ax \div SigmoidStep
        f   == ax % SigmoidStep
        pos == IF i + 1 >= Len(SigmoidTable)
               THEN SigmoidTable[Len(SigmoidTable)]
               ELSE SigmoidTable[i + 1]
                    + ((SigmoidTable[i + 2] - SigmoidTable[i + 1]) * f)
                      \div SigmoidStep
    IN  IF x >= 0 THEN pos ELSE Micro - pos

sigmoid(x) == SigmoidAt[x]

home_advantage_certain == 990 * Milli

\* home_advantage = 0.54
home_advantage == 540 * Milli

\* Win probability of the home team, in millionths.
calculate_win_prob(inning, top_of_inning, outs, base_state, home_score, away_score, is_home_batting) ==
    LET innings_remaining ==
            (9 - inning) * 2 + (IF top_of_inning THEN 0 ELSE 1)
        score_diff == home_score - away_score
        run_expectancy == get_run_expectancy(outs, base_state)
        effective_diff ==
            IF is_home_batting THEN score_diff * Milli + run_expectancy
                               ELSE score_diff * Milli - run_expectancy
        \* max(0.5, innings_remaining), in halves
        innings_factor2 == Max(1, 2 * innings_remaining)
        \* 2.0 * sqrt(innings_factor) = sqrt(2 * innings_factor2), thousandths
        std_dev == Isqrt(2 * innings_factor2 * Micro)
        z_score == DivTrunc[effective_diff * Milli, std_dev]
        raw == sigmoid(z_score)
        win_prob ==
            IF Abs(score_diff) <= 2 /\ inning <= 5
            THEN (raw * 9) \div 10 + home_advantage \div 10
            ELSE raw
    IN  IF inning >= 9 /\ ~top_of_inning /\ home_score > away_score
        THEN Micro
        ELSE IF inning > 9 /\ top_of_inning /\ home_score # away_score
        THEN (IF home_score > away_score THEN Micro ELSE 0)
        ELSE IF innings_remaining = 0
        THEN (IF home_score > away_score THEN Micro
              ELSE IF home_score = away_score THEN Micro \div 2 ELSE 0)
        ELSE Max(0, Min(Micro, win_prob))

\* Scenario 1 of calculate_leverage_index: the bases after a walk or single
new_base_walk(base_state) ==
    BaseState(TRUE,
              base_state.runner_on_first \/ base_state.runner_on_second,
              base_state.runner_on_third)

runs_scored_walk(base_state) == IF base_state.runner_on_third THEN 1 ELSE 0

\* the out scenario alone: no swing at all with two outs
leverage_swings_out_only(inning, top_of_inning, outs, base_state, home_score, away_score) ==
    IF outs + 1 <= 2
    THEN <<Abs(calculate_win_prob(inning, top_of_inning, outs + 1, base_state,
                                  home_score, away_score, ~top_of_inning)
               - calculate_win_prob(inning, top_of_inning, outs, base_state,
                                    home_score, away_score, ~top_of_inning))>>
    ELSE <<>>

\* The |WP swing| of each simulated outcome, in the order the code appends
leverage_swings(inning, top_of_inning, outs, base_state, home_score, away_score) ==
    LET is_home_batting == ~top_of_inning
        wp(o, b, h, a) ==
            calculate_win_prob(inning, top_of_inning, o, b, h, a,
                               is_home_batting)
        wp_current == wp(outs, base_state, home_score, away_score)
        rw == runs_scored_walk(base_state)
        wp_walk == wp(outs, new_base_walk(base_state),
                      home_score + (IF is_home_batting THEN rw ELSE 0),
                      away_score + (IF ~is_home_batting THEN rw ELSE 0))
        new_outs_out == outs + 1
        rh == 1 + runners_on_base(base_state)
        wp_hr == wp(outs, EmptyBases,
                    home_score + (IF is_home_batting THEN rh ELSE 0),
                    away_score + (IF ~is_home_batting THEN rh ELSE 0))
    IN  <<Abs(wp_walk - wp_current)>>
        \o (IF new_outs_out <= 2
            THEN <<Abs(wp(new_outs_out, base_state, home_score, away_score)
                       - wp_current)>>
            ELSE <<>>)
        \o <<Abs(wp_hr - wp_current)>>

\* Leverage index in millionths: mean swing / 0.05
calculate_leverage_index(inning, top_of_inning, outs, base_state, home_score, away_score) ==
    LET avg_swing ==
            MeanOrZero[leverage_swings(inning, top_of_inning, outs,
                                       base_state, home_score, away_score)]
    IN  Max(0, avg_swing * 20)

\* -------------------------------------------------------------------------
\* models.py: PitchEvent.  An Optional numeric field that is None is 0 here:
\* the code only ever tests such a field for truthiness before using it.
\* -------------------------------------------------------------------------
Count(b, s) == [balls |-> b, strikes |-> s]

Pitch(inning, top, outs, bases, home, away) ==
    [ game_id |-> "g1", pitch_id |-> "p1", at_bat_index |-> 0,
      pitch_number |-> 1,
      inning |-> inning, top_of_inning |-> top,
      batter_id |-> "b1", pitcher_id |-> "h1",
      outs |-> outs, base_state |-> bases, count |-> Count(0, 0),
      home_score |-> home, away_score |-> away,
      velocity |-> 0, attendance |-> 0,
      is_postseason |-> FALSE, is_elimination_game |-> FALSE,
      time_since_last_pitch |-> 0 ]

\* The six game-state fields of a pitch
GameStateOf(p) ==
    [ inning |-> p.inning, top_of_inning |-> p.top_of_inning,
      outs |-> p.outs, base_state |-> p.base_state,
      home_score |-> p.home_score, away_score |-> p.away_score ]

LeverageOfState(s) ==
    calculate_leverage_index(s.inning, s.top_of_inning, s.outs, s.base_state,
                             s.home_score, s.away_score)

\* -------------------------------------------------------------------------
\* win_prob.py: LeverageIndexCalculator
\* -------------------------------------------------------------------------
\* str(bool)
StrBool(b) == IF b THEN "True" ELSE "False"

make_cache_key_no_away(pitch) ==
    ToString(pitch.inning) \o "_" \o StrBool(pitch.top_of_inning) \o "_"
    \o ToString(pitch.outs) \o "_" \o to_code(pitch.base_state) \o "_"
    \o ToString(pitch.home_score)

make_cache_key_no_half(pitch) ==
    ToString(pitch.inning) \o "_"
    \o ToString(pitch.outs) \o "_" \o to_code(pitch.base_state) \o "_"
    \o ToString(pitch.home_score) \o "_" \o ToString(pitch.away_score)

\* f"{inning}_{top_of_inning}_{outs}_{base_code}_{home_score}_{away_score}"
make_cache_key(pitch) ==
    ToString(pitch.inning) \o "_" \o StrBool(pitch.top_of_inning) \o "_"
    \o ToString(pitch.outs) \o "_" \o to_code(pitch.base_state) \o "_"
    \o ToString(pitch.home_score) \o "_" \o ToString(pitch.away_score)

leverage_of_pitch_swapped_scores(pitch) ==
    calculate_leverage_index(pitch.inning, pitch.top_of_inning, pitch.outs,
                             pitch.base_state,
                             pitch.away_score, pitch.home_score)

\* self.wp_model.calculate_leverage_index(inning=pitch.inning, ...)
leverage_of_pitch(pitch) ==
    calculate_leverage_index(pitch.inning, pitch.top_of_inning, pitch.outs,
                             pitch.base_state,
                             pitch.home_score, pitch.away_score)

EmptyCache == [k \in {} |-> 0]

cache_put_rounded(c, key, value) ==
    [k \in DOMAIN c \cup {key} |-> IF k = key THEN (value \div Milli) * Milli ELSE c[k]]

\* self._cache[cache_key] = leverage
cache_put(c, key, value) ==
    [k \in DOMAIN c \cup {key} |-> IF k = key THEN value ELSE c[k]]

\* calculate_leverage_for_pitch on a calculator whose _cache is c:
\* the value returned, the cache afterwards, and whether it was a cache hit
calculate_leverage_for_pitch(c, pitch) ==
    LET cache_key == make_cache_key(pitch)
    IN  IF cache_key \in DOMAIN c
        THEN [value |-> c[cache_key], cache |-> c, hit |-> TRUE]
        ELSE Bind(leverage_of_pitch(pitch),
                  LAMBDA leverage :
                    [value |-> leverage,
                     cache |-> cache_put(c, cache_key, leverage),
                     hit |-> FALSE])

\* -------------------------------------------------------------------------
\* Python floats in scaling.py: binary floating point, round to nearest,
\* ties to even, with a mantissa of MantissaBits bits (53 in CPython).
\* A float is [m, e] with value m * 2^e, m = 0 or 2^(p-1) <= |m| < 2^p.
\* -------------------------------------------------------------------------
MantissaBits == 6

Float(m, e) == [m |-> m, e |-> e]

FZero == Float(0, 0)

\* all floats, for the domains of the functions below
Floats == [m : Int, e : Int]

\* number of bits of a positive integer below 2^30
BitLen[n \in Nat] == CHOOSE k \in 0..30 : 2^k > n /\ (k = 0 \/ 2^(k - 1) <= n)

\* (n + a fraction if sticky) * 2^e, n > 0, rounded to the mantissa width
FRound[n \in Nat, e \in Int, sticky \in BOOLEAN] ==
    IF n = 0 THEN FZero
    ELSE LET len == BitLen[n]
         IN  IF len <= MantissaBits
             THEN Float(n * 2^(MantissaBits - len), e - (MantissaBits - len))
             ELSE LET s == len - MantissaBits
                      q == n \div 2^s
                      r == n % 2^s
                      half == 2^(s - 1)
                      up == \/ r > half
                            \/ r = half /\ (sticky \/ q % 2 = 1)
                      m == IF up THEN q + 1 ELSE q
                  IN  IF m = 2^MantissaBits
                      THEN Float(2^(MantissaBits - 1), e + s + 1)
                      ELSE Float(m, e + s)

FNeg(a) == Float(-a.m, a.e)

\* a signed integer times 2^e, rounded
FRoundSigned[n \in Int, e \in Int] ==
    IF n >= 0 THEN FRound[n, e, FALSE] ELSE FNeg(FRound[-n, e, FALSE])

\* n / d for positive integers, correctly rounded
FromRatio[n \in Nat, d \in Nat \ {0}] ==
    IF n = 0 THEN FZero
    ELSE LET shift == 30 - BitLen[n]
             num == n * 2^shift
         IN  FRound[num \div d, -shift, num % d # 0]

FromInt(n) == FRoundSigned[n, 0]

\* the float nearest to v thousandths (a decimal literal such as 0.1)
FromMilli(v) ==
    IF v >= 0 THEN FromRatio[v, Milli] ELSE FNeg(FromRatio[-v, Milli])

FOne == FromInt(1)

\* a + b
FAdd[a \in Floats, b \in Floats] ==
    IF a.m = 0 THEN b
    ELSE IF b.m = 0 THEN a
    ELSE IF a.e - b.e > MantissaBits + 2 THEN a
    ELSE IF b.e - a.e > MantissaBits + 2 THEN b
    ELSE LET emin == IF a.e <= b.e THEN a.e ELSE b.e
         IN  FRoundSigned[a.m * 2^(a.e - emin) + b.m * 2^(b.e - emin), emin]

\* a - b
FSub(a, b) == FAdd[a, FNeg(b)]

\* a * b
FMul(a, b) == FRoundSigned[a.m * b.m, a.e + b.e]

\* a / b, b # 0
FDiv[a \in Floats, b \in Floats] ==
    IF a.m = 0 THEN FZero
    ELSE LET q == FromRatio[Abs(a.m), Abs(b.m)]
             r == Float(q.m, q.e + a.e - b.e)
         IN  IF (a.m < 0) = (b.m < 0) THEN r ELSE FNeg(r)

\* math.sqrt(a), a >= 0
FSqrt[a \in Floats] ==
    IF a.m = 0 THEN FZero
    ELSE LET odd == a.e % 2 = 1
             m2 == IF odd THEN 2 * a.m ELSE a.m
             e2 == IF odd THEN a.e - 1 ELSE a.e
             t == MantissaBits + 2
             scaled == m2 * 2^(2 * t)
             r == Isqrt(scaled)
         IN  FRound[r, (e2 \div 2) - t, r * r # scaled]

\* a < b
FLess(a, b) == FSub(a, b).m < 0

\* -------------------------------------------------------------------------
\* Optional values
\* -------------------------------------------------------------------------
None == [is_none |-> TRUE]

Some(v) == [is_none |-> FALSE, value |-> v]

\* -------------------------------------------------------------------------
\* scaling.py: Scaler
\* -------------------------------------------------------------------------
\* Scaler.__init__: a zero std is replaced by 1.0
Scaler_no_zero_check(mean, std, name) ==
    [mean |-> mean, std |-> std, name |-> name]

Scaler(mean, std, name) ==
    [mean |-> mean, std |-> IF std.m = 0 THEN FOne ELSE std, name |-> name]

\* Scaler.transform
transform(scaler, value) ==
    IF scaler.std.m = 0 THEN FZero
    ELSE FDiv[FSub(value, scaler.mean), scaler.std]

\* Scaler.inverse_transform
inverse_transform(scaler, z_score) ==
    FAdd[FMul(z_score, scaler.std), scaler.mean]

\* sum() of a list of floats: left to right from 0
FSumUpTo[s \in Seq(Floats), i \in Nat] ==
    IF i = 0 THEN FZero ELSE FAdd[FSumUpTo[s, i - 1], s[i]]

FSum(s) == FSumUpTo[s, Len(s)]

\* self.mean = sum(values) / n
fit_mean[values \in Seq(Floats)] ==
    FDiv[FSum(values), FromInt(Len(values))]

\* (x - self.mean) ** 2 for x in values
fit_squares[values \in Seq(Floats)] ==
    Bind(fit_mean[values], LAMBDA mean :
        [i \in 1..Len(values) |->
            Bind(FSub(values[i], mean), LAMBDA d : FMul(d, d))])

\* variance = sum(...) / n; self.std = math.sqrt(variance)
fit_std[values \in Seq(Floats)] ==
    FSqrt[FDiv[FSum(fit_squares[values]), FromInt(Len(values))]]

\* Scaler.fit: nothing on an empty list; a zero std is replaced by 1.0
fit(scaler, values) ==
    IF values = <<>> THEN scaler
    ELSE Bind(fit_std[values], LAMBDA std :
            [mean |-> fit_mean[values],
             std |-> IF std.m = 0 THEN FOne ELSE std,
             name |-> scaler.name])

\* Scaler.to_dict
to_dict(scaler) ==
    [name |-> scaler.name, mean |-> scaler.mean, std |-> scaler.std]

\* Scaler.from_dict: data["mean"], data["std"], data.get("name", "feature")
from_dict(data) ==
    Scaler(data.mean, data.std,
           IF "name" \in DOMAIN data THEN data.name ELSE "feature")

\* -------------------------------------------------------------------------
\* json.dump / json.load of numbers.  The text of a float is the decimal
\* numeral digits * 10^exp that float.__repr__ prints: the shortest one that
\* reads back as the same float, and the closest to it among those.  Reading
\* a numeral gives the float nearest to it.
\* -------------------------------------------------------------------------
Decimal(neg, digits, exp) == [neg |-> neg, digits |-> digits, exp |-> exp]

Pow10(n) == IF n > 0 THEN 10^n ELSE 1

Decimals == [neg : BOOLEAN, digits : Nat, exp : Int]

\* float(text): the float nearest to digits * 10^exp
float_parse[t \in Decimals] ==
    IF t.neg THEN FNeg(FromRatio[t.digits * Pow10(t.exp), Pow10(-t.exp)])
    ELSE FromRatio[t.digits * Pow10(t.exp), Pow10(-t.exp)]

\* |x| = XNum / XDen exactly
XNum(x) == Abs(x.m) * (IF x.e > 0 THEN 2^x.e ELSE 1)

XDen(x) == IF x.e < 0 THEN 2^(-x.e) ELSE 1

\* floor(log10(|x|)), x # 0
DecExp[x \in Floats] ==
    IF x.e >= 0
    THEN CHOOSE j \in 0..8 : 10^j <= XNum(x) /\ XNum(x) < 10^(j + 1)
    ELSE IF XNum(x) >= XDen(x)
    THEN CHOOSE j \in 0..2 : 10^j * XDen(x) <= XNum(x) /\ XNum(x) < 10^(j + 1) * XDen(x)
    ELSE CHOOSE j \in {-1, -2, -3, -4, -5, -6} :
             XDen(x) <= XNum(x) * 10^(-j) /\ XNum(x) * 10^(-j - 1) < XDen(x)

\* the two numerals of d significant digits nearest to |x|, as <<digits, exp>>
Neighbours(x, d) ==
    LET q == DecExp[x] - d + 1
        lo == (XNum(x) * Pow10(-q)) \div (XDen(x) * Pow10(q))
    IN  { <<lo, q>>, <<lo + 1, q>> }

\* |x * 10^-q - k| as a numerator over XDen(x) * 10^max(q, 0)
DecimalError(x, c) ==
    Abs(XNum(x) * Pow10(-c[2]) - c[1] * XDen(x) * Pow10(c[2]))

\* those of them that read back as |x|
RoundTrippers[x \in Floats, d \in Nat] ==
    { c \in Neighbours(x, d) :
        float_parse[Decimal(FALSE, c[1], c[2])] = Float(Abs(x.m), x.e) }

\* 17 in CPython: enough digits to tell any two floats apart
ReprDigits ==
    CHOOSE d \in 1..10 :
        /\ 10^(d - 1) > 2^MantissaBits
        /\ d = 1 \/ 10^(d - 2) <= 2^MantissaBits

\* drop trailing zeros of the digits
Canonical[k \in Nat, q \in Int] ==
    IF k # 0 /\ k % 10 = 0 THEN Canonical[k \div 10, q + 1] ELSE <<k, q>>

\* repr(x) with a fixed number of significant digits, like '%.{d}g'
float_repr_fixed[x \in Floats, d \in Nat] ==
    IF x.m = 0 THEN Decimal(FALSE, 0, 0)
    ELSE LET cands == Neighbours(x, d)
             c == CHOOSE c1 \in cands :
                    \A c2 \in cands :
                       \/ DecimalError(x, c1) < DecimalError(x, c2)
                       \/ DecimalError(x, c1) = DecimalError(x, c2)
                          /\ (c1 = c2 \/ c1[1] % 2 = 0)
             k == Canonical[c[1], c[2]]
         IN  Decimal(x.m < 0, k[1], k[2])

float_repr_truncated[x \in Floats] ==
    float_repr_fixed[x, ReprDigits - 1]

\* repr(x)
float_repr[x \in Floats] ==
    IF x.m = 0 THEN Decimal(FALSE, 0, 0)
    ELSE LET d == CHOOSE d1 \in 1..ReprDigits :
                    /\ RoundTrippers[x, d1] # {}
                    /\ \A d2 \in 1..(d1 - 1) : RoundTrippers[x, d2] = {}
             cands == RoundTrippers[x, d]
             c == CHOOSE c1 \in cands :
                    \A c2 \in cands :
                       \/ DecimalError(x, c1) < DecimalError(x, c2)
                       \/ DecimalError(x, c1) = DecimalError(x, c2)
                          /\ (c1 = c2 \/ c1[1] % 2 = 0)
             k == Canonical[c[1], c[2]]
         IN  Decimal(x.m < 0, k[1], k[2])

\* the digits of a non-negative integer, most significant first
Digits[n \in Nat] ==
    IF n < 10 THEN <<n>> ELSE Append(Digits[n \div 10], n % 10)

DigitsValue[s \in Seq(0..9), i \in Nat] ==
    IF i = 0 THEN 0 ELSE 10 * DigitsValue[s, i - 1] + s[i]

\* str(n) and int(text)
int_repr(n) == [neg |-> n < 0, digits |-> Digits[Abs(n)]]

int_parse(t) ==
    IF t.neg THEN -DigitsValue[t.digits, Len(t.digits)]
    ELSE DigitsValue[t.digits, Len(t.digits)]

\* -------------------------------------------------------------------------
\* scaling.py: MMIScalerSet
\* -------------------------------------------------------------------------
ScalerFields ==
    <<"leverage_scaler", "pressure_scaler", "fatigue_scaler", "execution_scaler", "bio_scaler">>

\* MMIScalerSet.__init__
MMIScalerSet ==
    [leverage_scaler |-> Scaler(FZero, FOne, "leverage_index"),
     pressure_scaler |-> Scaler(FZero, FOne, "pressure"),
     fatigue_scaler |-> Scaler(FZero, FOne, "fatigue"),
     execution_scaler |-> Scaler(FZero, FOne, "execution"),
     bio_scaler |-> Scaler(FZero, FOne, "bio_proxies"),
     season |-> None,
     season_type |-> "regular",
     total_pitches |-> 0,
     last_updated |-> None]

\* MMIScalerSet.fit; now is datetime.utcnow()
MMIScalerSet_fit(self, leverage_values, pressure_values, fatigue_values, execution_values, bio_values, season, season_type, now) ==
    [leverage_scaler |-> fit(self.leverage_scaler, leverage_values),
     pressure_scaler |-> fit(self.pressure_scaler, pressure_values),
     fatigue_scaler |-> fit(self.fatigue_scaler, fatigue_values),
     execution_scaler |-> fit(self.execution_scaler, execution_values),
     bio_scaler |-> fit(self.bio_scaler, bio_values),
     season |-> Some(season),
     season_type |-> season_type,
     total_pitches |-> Len(leverage_values),
     last_updated |-> Some(now)]

\* MMIScalerSet.transform_all
transform_all(self, leverage, pressure, fatigue, execution, bio) ==
    [z_leverage |-> transform(self.leverage_scaler, leverage),
     z_pressure |-> transform(self.pressure_scaler, pressure),
     z_fatigue |-> transform(self.fatigue_scaler, fatigue),
     z_execution |-> transform(self.execution_scaler, execution),
     z_bio |-> transform(self.bio_scaler, bio)]

\* create_default_scalers; year is datetime.now().year, now is utcnow()
create_default_scalers(year, now) ==
    [leverage_scaler |-> Scaler(FromMilli(1000), FromMilli(500), "leverage_index"),
     pressure_scaler |-> Scaler(FromMilli(3000), FromMilli(1500), "pressure"),
     fatigue_scaler |-> Scaler(FromMilli(2500), FromMilli(1200), "fatigue"),
     execution_scaler |-> Scaler(FromMilli(3000), FromMilli(1000), "execution"),
     bio_scaler |-> Scaler(FromMilli(1000), FromMilli(800), "bio_proxies"),
     season |-> Some(year),
     season_type |-> "default",
     total_pitches |-> 0,
     last_updated |-> Some(now)]

\* the five (mean, std) pairs of a set
Params(self) ==
    [f \in {ScalerFields[i] : i \in 1..5} |-> <<self[f].mean, self[f].std>>]

\* datetime.isoformat and datetime.fromisoformat on a clock reading
isoformat(t) == [well_formed |-> TRUE, digits |-> Digits[t]]

\* json.dump of one scaler's to_dict()
scaler_json_truncated(d) ==
    [name |-> d.name, mean |-> float_repr_truncated[d.mean], std |-> float_repr_truncated[d.std]]

scaler_json(d) ==
    [name |-> d.name, mean |-> float_repr[d.mean], std |-> float_repr[d.std]]

\* MMIScalerSet.save: the JSON document written to the file
save(self) ==
    [metadata |->
        [season |-> IF self.season.is_none THEN None
                    ELSE Some(int_repr(self.season.value)),
         season_type |-> self.season_type,
         total_pitches |-> int_repr(self.total_pitches),
         last_updated |-> IF self.last_updated.is_none THEN None
                          ELSE Some(isoformat(self.last_updated.value))],
     scalers |->
        [leverage |-> scaler_json(to_dict(self.leverage_scaler)),
         pressure |-> scaler_json(to_dict(self.pressure_scaler)),
         fatigue |-> scaler_json(to_dict(self.fatigue_scaler)),
         execution |-> scaler_json(to_dict(self.execution_scaler)),
         bio_proxies |-> scaler_json(to_dict(self.bio_scaler))]]

\* a file: absent, or text that is a JSON object, another JSON value, or
\* not JSON at all
NoFile == [exists |-> FALSE]

JsonFile(data) == [exists |-> TRUE, json |-> TRUE, object |-> TRUE, data |-> data]

JsonArrayFile == [exists |-> TRUE, json |-> TRUE, object |-> FALSE]

GarbageFile == [exists |-> TRUE, json |-> FALSE]

Ok(v) == [ok |-> TRUE, value |-> v]

Raise(e) == [ok |-> FALSE, error |-> e]

\* open(file_path) and json.load(f)
load_open(file) ==
    IF ~file.exists THEN Raise("FileNotFoundError")
    ELSE IF ~file.json THEN Raise("JSONDecodeError")
    ELSE Ok(file)

\* load, "Load metadata": the four assignments to the new set
load_metadata(file, scaler_set) ==
    IF ~file.object THEN Raise("AttributeError")
    ELSE LET metadata == IF "metadata" \in DOMAIN file.data
                         THEN file.data.metadata ELSE [x \in {} |-> 0]
             has(k) == k \in DOMAIN metadata
             dated == has("last_updated") /\ ~metadata.last_updated.is_none
         IN  IF dated /\ ~metadata.last_updated.value.well_formed
             THEN Raise("ValueError")
             ELSE Ok([scaler_set EXCEPT
                        !.season = IF has("season") /\ ~metadata.season.is_none
                                   THEN Some(int_parse(metadata.season.value))
                                   ELSE None,
                        !.season_type = IF has("season_type")
                                        THEN metadata.season_type ELSE "regular",
                        !.total_pitches = IF has("total_pitches")
                                          THEN int_parse(metadata.total_pitches)
                                          ELSE 0,
                        !.last_updated =
                            IF dated
                            THEN Some(DigitsValue[metadata.last_updated.value.digits,
                                                  Len(metadata.last_updated.value.digits)])
                            ELSE @])

\* the JSON key each attribute is loaded from
ScalerKeys == <<"leverage", "pressure", "fatigue", "execution", "bio_proxies">>

\* load, "Load scalers", one line: Scaler.from_dict(scalers_data[key])
load_scaler(file, key) ==
    LET scalers_data == IF "scalers" \in DOMAIN file.data
                        THEN file.data.scalers ELSE [x \in {} |-> 0]
    IN  IF key \notin DOMAIN scalers_data THEN Raise("KeyError")
        ELSE IF {"mean", "std"} \subseteq DOMAIN scalers_data[key]
        THEN Ok(from_dict([name |-> IF "name" \in DOMAIN scalers_data[key]
                                    THEN scalers_data[key].name ELSE "feature",
                           mean |-> float_parse[scalers_data[key].mean],
                           std |-> float_parse[scalers_data[key].std]]))
        ELSE Raise("KeyError")

\* load, one more of the "Load scalers" lines applied to the result so far
load_assign(file, r, i) ==
    Bind(r, LAMBDA v :
        IF ~v.ok THEN v
        ELSE Bind(load_scaler(file, ScalerKeys[i]), LAMBDA s :
                 IF s.ok THEN Ok([v.value EXCEPT ![ScalerFields[i]] = s.value])
                 ELSE s))

\* MMIScalerSet.load: the set read from the file, or the exception raised
load(file) ==
    IF ~load_open(file).ok THEN load_open(file)
    ELSE load_assign(file,
           load_assign(file,
             load_assign(file,
               load_assign(file,
                 load_assign(file, load_metadata(file, MMIScalerSet), 1),
               2),
             3),
           4),
         5)

\* -------------------------------------------------------------------------
\* models.py: Count and PitchEvent properties
\* -------------------------------------------------------------------------
\* Count.is_hitters_count
is_hitters_count(count) == count.balls >= 2 /\ count.strikes <= 1

\* Count.is_pitchers_count
is_pitchers_count(count) == count.strikes = 2 /\ count.balls <= 1

\* PitchEvent.score_differential: from the batting team's perspective
score_differential(pitch) ==
    IF pitch.top_of_inning
    THEN pitch.away_score - pitch.home_score
    ELSE pitch.home_score - pitch.away_score

\* -------------------------------------------------------------------------
\* features.py.  Scores are in thousandths; seconds and mph of a pitch are
\* in thousandths too; a division truncates to the thousandth.
\* -------------------------------------------------------------------------
\* math.exp(-0.3 * d) in thousandths, d = 0, 1, 2, ...
EXP_DECAY ==
    <<1000, 741, 549, 407, 301, 223, 165, 122, 91, 67, 50, 37, 27, 20, 15,
      11, 8, 6, 5, 3, 2, 2, 1, 1, 1, 1>>

exp_decay(d) == IF d + 1 <= Len(EXP_DECAY) THEN EXP_DECAY[d + 1] ELSE 0

\* PressureCalculator.calculate, called with league_avg_attendance = 30000
PressureCalculator_calculate(pitch) ==
    LET score_diff == Abs(score_differential(pitch))
        closeness_pressure == exp_decay(score_diff)
        inning_pressure ==
            IF pitch.inning <= 3 THEN 500
            ELSE IF pitch.inning <= 6 THEN 1000
            ELSE 1500 + (pitch.inning - 7) * 200
        crowd_factor ==
            IF pitch.attendance # 0
            THEN Min(2000, (pitch.attendance * Milli) \div 30000)
            ELSE 1000
        away_pressure == IF pitch.top_of_inning THEN 300 ELSE 0
        postseason ==
            IF pitch.is_postseason
            THEN 1500 + (IF pitch.is_elimination_game THEN 1000 ELSE 0)
            ELSE 0
        time_pressure ==
            IF pitch.time_since_last_pitch # 0 /\ pitch.time_since_last_pitch > 30 * Milli
            THEN Min(2000, pitch.time_since_last_pitch \div 30) \div 2
            ELSE 0
    IN  closeness_pressure * 2 + (inning_pressure * 3) \div 2
        + crowd_factor \div 2 + away_pressure + postseason + time_pressure

\* FatigueCalculator.calculate_pitcher_fatigue
calculate_pitcher_fatigue(pitch, pitches_in_game, pitches_last_7_days, days_since_last_outing, is_starter) ==
    LET game_fatigue ==
            IF is_starter
            THEN IF pitches_in_game < 75
                 THEN (pitches_in_game * Milli) \div 75
                 ELSE 1000 + ((pitches_in_game - 75) * Milli) \div 30
            ELSE IF pitches_in_game < 25
                 THEN (pitches_in_game * Milli) \div 25
                 ELSE 1000 + ((pitches_in_game - 25) * Milli) \div 10
        workload_fatigue == (pitches_last_7_days * Milli) \div 100
        rest_fatigue ==
            IF days_since_last_outing = 0 THEN 2000
            ELSE IF days_since_last_outing = 1 THEN 1500
            ELSE IF days_since_last_outing = 2 THEN 1000
            ELSE Max(0, 1000 - (days_since_last_outing - 2) * 200)
        inning_fatigue == (pitch.inning * Milli) \div 9
    IN  game_fatigue * 2 + (workload_fatigue * 3) \div 2 + rest_fatigue
        + inning_fatigue \div 2

\* FatigueCalculator.calculate_batter_fatigue
calculate_batter_fatigue(pitch, pas_in_game, pas_last_7_days) ==
    LET pa_fatigue == (pas_in_game * Milli) \div 5
        workload_fatigue == (pas_last_7_days * Milli) \div 30
        extra_inning_fatigue ==
            IF pitch.inning > 9 THEN (pitch.inning - 9) * 300 ELSE 0
        late_game_fatigue ==
            IF pitch.inning >= 7 THEN (pitch.inning - 6) * 200 ELSE 0
    IN  pa_fatigue + workload_fatigue + extra_inning_fatigue + late_game_fatigue

\* ExecutionWindowsCalculator.calculate_pitcher_execution, called without
\* is_platoon_disadvantage
calculate_pitcher_execution(pitch, batter_woba) ==
    LET batter_difficulty == (batter_woba * 1500) \div 320
        count_difficulty ==
            IF is_hitters_count(pitch.count) THEN 1500
            ELSE IF is_pitchers_count(pitch.count) THEN 500
            ELSE 1000
        runners == runners_on_base(pitch.base_state)
        situation_difficulty == runners * 500 + (2 - pitch.outs) * 300
        score_context == IF score_differential(pitch) < 0 THEN 300 ELSE 0
    IN  batter_difficulty + count_difficulty + situation_difficulty + score_context

\* ExecutionWindowsCalculator.calculate_batter_execution, called without
\* pitcher_stuff_plus (100.0); previous_pitch_velocity None is 0
calculate_batter_execution(pitch, previous_pitch_velocity) ==
    LET velocity_difficulty ==
            IF pitch.velocity # 0 THEN pitch.velocity \div 92 ELSE 0
        diff_difficulty ==
            IF pitch.velocity # 0 /\ previous_pitch_velocity # 0
            THEN Min(1000, Abs(pitch.velocity - previous_pitch_velocity) \div 10) \div 2
            ELSE 0
        count_difficulty ==
            IF is_hitters_count(pitch.count) THEN 500
            ELSE IF is_pitchers_count(pitch.count) THEN 1500
            ELSE 1000
        pitcher_difficulty == (100 * Milli) \div 100
        two_strikes == IF pitch.count.strikes = 2 THEN 500 ELSE 0
        scoring_position ==
            IF pitch.base_state.runner_on_second \/ pitch.base_state.runner_on_third
            THEN 300 ELSE 0
    IN  velocity_difficulty + diff_difficulty + count_difficulty
        + pitcher_difficulty + two_strikes + scoring_position

\* BioProxiesCalculator.calculate, called without pitcher_avg_tempo (20.0)
BioProxiesCalculator_calculate(pitch, pitches_in_game, high_mmi_moments_in_game) ==
    LET tempo ==
            IF pitch.time_since_last_pitch # 0
            THEN (Min(1000, Abs(pitch.time_since_last_pitch - 20 * Milli) \div 5) * 4) \div 5
            ELSE 0
        cumulative_stress == Min(2000, high_mmi_moments_in_game * 300)
        back_to_back ==
            IF /\ pitch.inning >= 7
               /\ Abs(score_differential(pitch)) <= 2
               /\ runners_on_base(pitch.base_state) >= 2
            THEN 500 ELSE 0
        role_stress ==
            IF pitch.inning >= 9
               /\ \/ ~pitch.top_of_inning /\ score_differential(pitch) > 0
                  \/ pitch.top_of_inning /\ score_differential(pitch) < 0
            THEN 600 ELSE 0
        count_stress ==
            IF pitches_in_game > 100 THEN ((pitches_in_game - 100) * Milli) \div 50 ELSE 0
    IN  tempo + cumulative_stress + back_to_back + role_stress + count_stress

\* FeatureBuilder.compute_pitcher_features
compute_pitcher_features(pitch, pitches_in_game, pitches_last_7_days, days_since_last_outing, is_starter, batter_woba, high_mmi_moments_in_game) ==
    [pressure |-> PressureCalculator_calculate(pitch),
     fatigue |-> calculate_pitcher_fatigue(pitch, pitches_in_game, pitches_last_7_days,
                                           days_since_last_outing, is_starter),
     execution |-> calculate_pitcher_execution(pitch, batter_woba),
     bio_proxies |-> BioProxiesCalculator_calculate(pitch, pitches_in_game,
                                                    high_mmi_moments_in_game)]

\* FeatureBuilder.compute_batter_features
compute_batter_features(pitch, pas_in_game, pas_last_7_days, previous_pitch_velocity, high_mmi_moments_in_game) ==
    [pressure |-> PressureCalculator_calculate(pitch),
     fatigue |-> calculate_batter_fatigue(pitch, pas_in_game, pas_last_7_days),
     execution |-> calculate_batter_execution(pitch, previous_pitch_velocity),
     bio_proxies |-> BioProxiesCalculator_calculate(pitch, pas_in_game,
                                                    high_mmi_moments_in_game)]

\* -------------------------------------------------------------------------
\* scaling.py: MMIScalerSet <-> LeagueStats
\* -------------------------------------------------------------------------
\* MMIScalerSet.to_league_stats; year is datetime.now().year, now is utcnow()
to_league_stats(self, total_games, year, now) ==
    [season |-> IF self.season.is_none \/ self.season.value = 0
                THEN year ELSE self.season.value,
     season_type |-> self.season_type,
     last_updated |-> IF self.last_updated.is_none THEN now
                      ELSE self.last_updated.value,
     total_pitches |-> self.total_pitches,
     total_games |-> total_games,
     li_mean |-> self.leverage_scaler.mean,
     li_std |-> self.leverage_scaler.std,
     pressure_mean |-> self.pressure_scaler.mean,
     pressure_std |-> self.pressure_scaler.std,
     fatigue_mean |-> self.fatigue_scaler.mean,
     fatigue_std |-> self.fatigue_scaler.std,
     execution_mean |-> self.execution_scaler.mean,
     execution_std |-> self.execution_scaler.std,
     bio_proxies_mean |-> self.bio_scaler.mean,
     bio_proxies_std |-> self.bio_scaler.std,
     avg_leverage_index |-> self.leverage_scaler.mean,
     avg_game_attendance |-> 30000]

\* MMIScalerSet.from_league_stats
from_league_stats(league_stats) ==
    [leverage_scaler |-> Scaler(league_stats.li_mean, league_stats.li_std, "leverage_index"),
     pressure_scaler |-> Scaler(league_stats.pressure_mean, league_stats.pressure_std, "pressure"),
     fatigue_scaler |-> Scaler(league_stats.fatigue_mean, league_stats.fatigue_std, "fatigue"),
     execution_scaler |-> Scaler(league_stats.execution_mean, league_stats.execution_std, "execution"),
     bio_scaler |-> Scaler(league_stats.bio_proxies_mean, league_stats.bio_proxies_std, "bio_proxies"),
     season |-> Some(league_stats.season),
     season_type |-> league_stats.season_type,
     total_pitches |-> league_stats.total_pitches,
     last_updated |-> Some(league_stats.last_updated)]

\* -------------------------------------------------------------------------
\* mmi_core.py: MMICalculator.  A weight given by the caller is a number of
\* thousandths; a weight of the calculator is the exact fraction n / d.
\* -------------------------------------------------------------------------
Rat(n, d) == [n |-> n, d |-> d]

\* the float nearest to a fraction
FromRat(w) ==
    IF w.n >= 0 THEN FromRatio[w.n, w.d] ELSE FNeg(FromRatio[-w.n, w.d])

\* self.weights before custom_weights is merged in
DEFAULT_WEIGHTS ==
    [leverage |-> 350, pressure |-> 200, fatigue |-> 200, execution |-> 150, bio |-> 100]

\* the five keys compute_pitch_mmi reads
WeightKeys == {"leverage", "pressure", "fatigue", "execution", "bio"}

\* if custom_weights: self.weights.update(custom_weights)
merge_weights(custom_weights) ==
    IF custom_weights.is_none THEN DEFAULT_WEIGHTS
    ELSE [k \in DOMAIN DEFAULT_WEIGHTS \cup DOMAIN custom_weights.value |->
            IF k \in DOMAIN custom_weights.value
            THEN custom_weights.value[k] ELSE DEFAULT_WEIGHTS[k]]

\* sum(f[k] for k in S)
RECURSIVE SumOver(_, _)
SumOver(f, S) ==
    IF S = {} THEN 0
    ELSE LET k == CHOOSE x \in S : TRUE
         IN  f[k] + SumOver(f, S \ {k})

weights_need_normalizing_above(total_weight) == total_weight - Milli > 10

\* abs(total_weight - 1.0) > 0.01
weights_need_normalizing(total_weight) == Abs(total_weight - Milli) > 10

\* "Validate weights sum to 1.0": the weights kept, or ZeroDivisionError
validate_weights(weights) ==
    LET total_weight == SumOver(weights, DOMAIN weights)
    IN  IF weights_need_normalizing(total_weight)
        THEN IF total_weight = 0 THEN Raise("ZeroDivisionError")
             ELSE Ok([k \in DOMAIN weights |->
                        IF total_weight > 0 THEN Rat(weights[k], total_weight)
                        ELSE Rat(-weights[k], -total_weight)])
        ELSE Ok([k \in DOMAIN weights |-> Rat(weights[k], Milli)])

\* MMICalculator.__init__; year and now are the clock readings
\* create_default_scalers takes
MMICalculator(scaler_set, custom_weights, year, now) ==
    LET weights == validate_weights(merge_weights(custom_weights))
    IN  IF ~weights.ok THEN weights
        ELSE Ok([leverage_cache |-> EmptyCache,
                 scaler_set |-> IF scaler_set.is_none
                                THEN create_default_scalers(year, now)
                                ELSE scaler_set.value,
                 weights |-> weights.value])

\* ctx.get(key, default)
ctx_get(ctx, key, default) == IF key \in DOMAIN ctx THEN ctx[key] ELSE default

\* MMIComponents.weighted_sum
weighted_sum(c) ==
    FAdd[FAdd[FAdd[FAdd[FMul(FromRat(c.weight_leverage), c.z_leverage),
                        FMul(FromRat(c.weight_pressure), c.z_pressure)],
                   FMul(FromRat(c.weight_fatigue), c.z_fatigue)],
              FMul(FromRat(c.weight_execution), c.z_execution)],
         FMul(FromRat(c.weight_bio), c.z_bio)]

\* compute_pitch_mmi, step 3: the features of the role
role_features(pitch, role, ctx) ==
    IF role = "pitcher"
    THEN compute_pitcher_features(pitch,
             ctx_get(ctx, "pitches_in_game", 50),
             ctx_get(ctx, "pitches_last_7_days", 0),
             ctx_get(ctx, "days_since_last_outing", 3),
             ctx_get(ctx, "is_starter", TRUE),
             ctx_get(ctx, "batter_woba", 320),
             ctx_get(ctx, "high_mmi_moments_in_game", 0))
    ELSE compute_batter_features(pitch,
             ctx_get(ctx, "pas_in_game", 3),
             ctx_get(ctx, "pas_last_7_days", 25),
             ctx_get(ctx, "previous_pitch_velocity", 0),
             ctx_get(ctx, "high_mmi_moments_in_game", 0))

\* compute_pitch_mmi, steps 4 and 5: MMIComponents of the raw values
MMIComponents(self, leverage, features) ==
    LET z_scores == transform_all(self.scaler_set,
                                  FromRatio[leverage, Micro],
                                  FromMilli(features.pressure),
                                  FromMilli(features.fatigue),
                                  FromMilli(features.execution),
                                  FromMilli(features.bio_proxies))
    IN  [leverage_index |-> leverage,
         pressure_score |-> features.pressure,
         fatigue_score |-> features.fatigue,
         execution_windows |-> features.execution,
         bio_proxies |-> features.bio_proxies,
         z_leverage |-> z_scores.z_leverage,
         z_pressure |-> z_scores.z_pressure,
         z_fatigue |-> z_scores.z_fatigue,
         z_execution |-> z_scores.z_execution,
         z_bio |-> z_scores.z_bio,
         weight_leverage |-> self.weights["leverage"],
         weight_pressure |-> self.weights["pressure"],
         weight_fatigue |-> self.weights["fatigue"],
         weight_execution |-> self.weights["execution"],
         weight_bio |-> self.weights["bio"]]

\* MMIResult of a pitch; timestamp is datetime.utcnow() at construction
MMIResult(pitch, mmi, components, role, timestamp) ==
    [pitch_id |-> pitch.pitch_id,
     game_id |-> pitch.game_id,
     batter_id |-> pitch.batter_id,
     pitcher_id |-> pitch.pitcher_id,
     inning |-> pitch.inning,
     mmi |-> mmi,
     components |-> components,
     timestamp |-> timestamp,
     role |-> role,
     meta |-> [at_bat_index |-> pitch.at_bat_index,
               pitch_number |-> pitch.pitch_number]]

\* compute_pitch_mmi of a calculator that counts its pitches: the default
\* of pitches_in_game grows with the entries of the leverage cache
compute_pitch_mmi_with_history(self, pitch, role, context, now) ==
    IF role \notin {"pitcher", "batter"} THEN Raise("ValueError")
    ELSE Bind(calculate_leverage_for_pitch(self.leverage_cache, pitch),
              LAMBDA lev :
         Bind(MMIComponents(self, lev.value,
                  role_features(pitch, role,
                      IF context.is_none
                      THEN [k \in {"pitches_in_game"} |->
                              50 + 40 * Cardinality(DOMAIN self.leverage_cache)]
                      ELSE context.value)),
              LAMBDA components :
                Ok([result |-> MMIResult(pitch, weighted_sum(components),
                                         components, role, now),
                    self |-> [self EXCEPT !.leverage_cache = lev.cache],
                    hit |-> lev.hit])))

\* compute_pitch_mmi without the check of the role: any other role takes
\* the else branch of step 3
compute_pitch_mmi_any_role(self, pitch, role, context, now) ==
    Bind(calculate_leverage_for_pitch(self.leverage_cache, pitch),
         LAMBDA lev :
    Bind(MMIComponents(self, lev.value,
             role_features(pitch, role,
                 IF context.is_none THEN [k \in {} |-> 0] ELSE context.value)),
         LAMBDA components :
           Ok([result |-> MMIResult(pitch, weighted_sum(components),
                                    components, role, now),
               self |-> [self EXCEPT !.leverage_cache = lev.cache],
               hit |-> lev.hit])))

\* MMICalculator.compute_pitch_mmi on the calculator self at clock reading
\* now: the exception raised, or the result with the calculator afterwards
\* and whether the leverage came from the cache
compute_pitch_mmi(self, pitch, role, context, now) ==
    IF role \notin {"pitcher", "batter"} THEN Raise("ValueError")
    ELSE Bind(calculate_leverage_for_pitch(self.leverage_cache, pitch),
              LAMBDA lev :
         Bind(MMIComponents(self, lev.value,
                  role_features(pitch, role,
                      IF context.is_none THEN [k \in {} |-> 0] ELSE context.value)),
              LAMBDA components :
                Ok([result |-> MMIResult(pitch, weighted_sum(components),
                                         components, role, now),
                    self |-> [self EXCEPT !.leverage_cache = lev.cache],
                    hit |-> lev.hit])))

\* MMIResult.pitch_id of a plate appearance: None
NoPitchId == "None"

\* the loop of compute_pa_mmi from pitch i on: the results appended to
\* those of acc, with the calculator afterwards, or the exception of the
\* first call that raised
RECURSIVE pa_results(_, _, _, _, _, _)
pa_results(acc, pitches, role, contexts, now, i) ==
    IF i > Len(pitches) THEN acc
    ELSE Bind(compute_pitch_mmi(acc.self, pitches[i], role,
                  IF ~contexts.is_none /\ i <= Len(contexts.value)
                  THEN Some(contexts.value[i]) ELSE None, now),
              LAMBDA r :
                IF ~r.ok THEN [ok |-> FALSE, error |-> r.error,
                               self |-> acc.self, results |-> acc.results]
                ELSE pa_results([ok |-> TRUE, self |-> r.value.self,
                                 results |-> Append(acc.results, r.value.result)],
                                pitches, role, contexts, now, i + 1))

\* max(mmi_results, key=lambda r: r.mmi), but the last of the greatest
last_max_by_mmi(mmi_results) ==
    mmi_results[CHOOSE i \in 1..Len(mmi_results) :
        /\ \A j \in 1..Len(mmi_results) : ~FLess(mmi_results[i].mmi, mmi_results[j].mmi)
        /\ \A j \in (i + 1)..Len(mmi_results) : FLess(mmi_results[j].mmi, mmi_results[i].mmi)]

\* max(mmi_results, key=lambda r: r.mmi): the first of the greatest
max_by_mmi(mmi_results) ==
    mmi_results[CHOOSE i \in 1..Len(mmi_results) :
        /\ \A j \in 1..Len(mmi_results) : ~FLess(mmi_results[i].mmi, mmi_results[j].mmi)
        /\ \A j \in 1..(i - 1) : FLess(mmi_results[j].mmi, mmi_results[i].mmi)]

\* the values of a raw component, of a z component and of mmi over results
raw_values(mmi_results, field) ==
    [i \in 1..Len(mmi_results) |-> mmi_results[i].components[field]]

mmi_values(mmi_results) == [i \in 1..Len(mmi_results) |-> mmi_results[i].mmi]

\* sum(...) / len(mmi_results) of a raw component and of floats
mean_raw(mmi_results, field) ==
    SumSeq(raw_values(mmi_results, field)) \div Len(mmi_results)

mean_float(values) == FDiv[FSum(values), FromInt(Len(values))]

\* the leverage index of a result as a float
leverage_float(r) == FromRatio[r.components.leverage_index, Micro]

\* the leverage indexes the raw components are weighted by, in thousandths
\* (in millionths when every one of them is below a thousandth): the
\* products of the weighted sums stay within 32 bits
leverage_weights(mmi_results) ==
    Bind([i \in 1..Len(mmi_results) |->
            mmi_results[i].components.leverage_index \div Milli],
         LAMBDA thousandths :
           IF SumSeq(thousandths) > 0 THEN thousandths
           ELSE raw_values(mmi_results, "leverage_index"))

\* sum(r.components.X * r.components.leverage_index ...) / total_leverage
weighted_raw(mmi_results, field, total_leverage) ==
    Bind(leverage_weights(mmi_results), LAMBDA w :
        IF field = "leverage_index"
        THEN (SumSeq([i \in 1..Len(mmi_results) |->
                        (mmi_results[i].components[field] \div Milli) * w[i]])
                \div SumSeq(w)) * Milli
        ELSE SumSeq([i \in 1..Len(mmi_results) |->
                       mmi_results[i].components[field] * w[i]])
                \div SumSeq(w))

weighted_z(mmi_results, field, total_leverage) ==
    FDiv[FSum([i \in 1..Len(mmi_results) |->
                 FMul(mmi_results[i].components[field],
                      leverage_float(mmi_results[i]))]),
         FromRatio[total_leverage, Micro]]

\* sum(r.mmi * r.components.leverage_index / total_leverage ...)
weighted_mmi(mmi_results, total_leverage) ==
    FSum([i \in 1..Len(mmi_results) |->
            FDiv[FMul(mmi_results[i].mmi, leverage_float(mmi_results[i])),
                 FromRatio[total_leverage, Micro]]])

\* the components of the first pitch, not averaged
first_pitch_components(self, mmi_results) == mmi_results[1].components

\* the MMIComponents of "mean" and of "weighted"
avg_components(self, mmi_results) ==
    [leverage_index |-> mean_raw(mmi_results, "leverage_index"),
     pressure_score |-> mean_raw(mmi_results, "pressure_score"),
     fatigue_score |-> mean_raw(mmi_results, "fatigue_score"),
     execution_windows |-> mean_raw(mmi_results, "execution_windows"),
     bio_proxies |-> mean_raw(mmi_results, "bio_proxies"),
     z_leverage |-> mean_float(raw_values(mmi_results, "z_leverage")),
     z_pressure |-> mean_float(raw_values(mmi_results, "z_pressure")),
     z_fatigue |-> mean_float(raw_values(mmi_results, "z_fatigue")),
     z_execution |-> mean_float(raw_values(mmi_results, "z_execution")),
     z_bio |-> mean_float(raw_values(mmi_results, "z_bio")),
     weight_leverage |-> self.weights["leverage"],
     weight_pressure |-> self.weights["pressure"],
     weight_fatigue |-> self.weights["fatigue"],
     weight_execution |-> self.weights["execution"],
     weight_bio |-> self.weights["bio"]]

weighted_components(self, mmi_results, total_leverage) ==
    [leverage_index |-> weighted_raw(mmi_results, "leverage_index", total_leverage),
     pressure_score |-> weighted_raw(mmi_results, "pressure_score", total_leverage),
     fatigue_score |-> weighted_raw(mmi_results, "fatigue_score", total_leverage),
     execution_windows |-> weighted_raw(mmi_results, "execution_windows", total_leverage),
     bio_proxies |-> weighted_raw(mmi_results, "bio_proxies", total_leverage),
     z_leverage |-> weighted_z(mmi_results, "z_leverage", total_leverage),
     z_pressure |-> weighted_z(mmi_results, "z_pressure", total_leverage),
     z_fatigue |-> weighted_z(mmi_results, "z_fatigue", total_leverage),
     z_execution |-> weighted_z(mmi_results, "z_execution", total_leverage),
     z_bio |-> weighted_z(mmi_results, "z_bio", total_leverage),
     weight_leverage |-> self.weights["leverage"],
     weight_pressure |-> self.weights["pressure"],
     weight_fatigue |-> self.weights["fatigue"],
     weight_execution |-> self.weights["execution"],
     weight_bio |-> self.weights["bio"]]

\* the MMIResult of a plate appearance under "mean" or "weighted"
pa_result(first_pitch, mmi, components, role, aggregation, pitch_count, timestamp) ==
    [pitch_id |-> NoPitchId,
     game_id |-> first_pitch.game_id,
     batter_id |-> first_pitch.batter_id,
     pitcher_id |-> first_pitch.pitcher_id,
     inning |-> first_pitch.inning,
     mmi |-> mmi,
     components |-> components,
     timestamp |-> timestamp,
     role |-> role,
     meta |-> [aggregation |-> aggregation, pitch_count |-> pitch_count]]

no_leverage_never(total_leverage) == FALSE

\* if total_leverage == 0
no_leverage(total_leverage) == total_leverage = 0

\* MMICalculator.compute_pa_mmi on the calculator self at clock reading now:
\* what it returns or raises, the calculator afterwards, and the
\* mmi_results of its loop
RECURSIVE compute_pa_mmi(_, _, _, _, _, _)
compute_pa_mmi(self, pitches, role, aggregation, contexts, now) ==
    IF pitches = <<>>
    THEN [outcome |-> Raise("ValueError"), self |-> self, mmi_results |-> <<>>]
    ELSE Bind(pa_results([ok |-> TRUE, self |-> self, results |-> <<>>],
                         pitches, role, contexts, now, 1),
              LAMBDA loop :
      IF ~loop.ok
      THEN [outcome |-> Raise(loop.error), self |-> loop.self,
            mmi_results |-> loop.results]
      ELSE IF aggregation = "max"
      THEN [outcome |-> Ok(max_by_mmi(loop.results)), self |-> loop.self,
            mmi_results |-> loop.results]
      ELSE IF aggregation = "mean"
      THEN [outcome |-> Ok(pa_result(pitches[1],
                                     mean_float(mmi_values(loop.results)),
                                     avg_components(loop.self, loop.results),
                                     role, "mean", Len(pitches), now)),
            self |-> loop.self, mmi_results |-> loop.results]
      ELSE IF aggregation = "weighted"
      THEN Bind(SumSeq(raw_values(loop.results, "leverage_index")),
                LAMBDA total_leverage :
             IF no_leverage(total_leverage)
             THEN compute_pa_mmi(loop.self, pitches, role, "mean", contexts, now)
             ELSE IF total_leverage = 0
             THEN [outcome |-> Raise("ZeroDivisionError"), self |-> loop.self,
                   mmi_results |-> loop.results]
             ELSE [outcome |-> Ok(pa_result(pitches[1],
                                     weighted_mmi(loop.results, total_leverage),
                                     weighted_components(loop.self, loop.results,
                                                         total_leverage),
                                     role, "weighted", Len(pitches), now)),
                   self |-> loop.self, mmi_results |-> loop.results])
      ELSE [outcome |-> Raise("ValueError"), self |-> loop.self,
            mmi_results |-> loop.results])

\* -------------------------------------------------------------------------
\* aggregate.py: compute_game_mmi
\* -------------------------------------------------------------------------
\* defaultdict(int)[key]
count_of(counts, key) == IF key \in DOMAIN counts THEN counts[key] ELSE 0

\* defaultdict(int)[key] += 1
count_incr(counts, key) ==
    [k \in DOMAIN counts \cup {key} |->
        IF k = key THEN count_of(counts, key) + 1 ELSE counts[k]]

\* compute_game_mmi up to the loop: the calculator and the empty counters
game_start(league_stats, year, now) ==
    [calculator |-> MMICalculator(Some(from_league_stats(league_stats)), None, year, now).value,
     pitcher_pitch_counts |-> [k \in {} |-> 0],
     batter_pa_counts |-> [k \in {} |-> 0],
     high_mmi_counts |-> [k \in {} |-> 0],
     results |-> <<>>]

\* a context that counts the pitches of the game, whoever the player
game_context_any_player(st, pitch, role) ==
    IF role = "pitcher"
    THEN [pitches_in_game |-> Len(st.results) + 1,
          high_mmi_moments_in_game |-> count_of(st.high_mmi_counts, pitch.pitcher_id)]
    ELSE [pas_in_game |-> Len(st.results) + 1,
          high_mmi_moments_in_game |-> count_of(st.high_mmi_counts, pitch.batter_id)]

\* the context the loop builds for a pitch, after the counter is advanced
game_context(st, pitch, role) ==
    IF role = "pitcher"
    THEN [pitches_in_game |-> count_of(st.pitcher_pitch_counts, pitch.pitcher_id) + 1,
          high_mmi_moments_in_game |-> count_of(st.high_mmi_counts, pitch.pitcher_id)]
    ELSE [pas_in_game |-> count_of(st.batter_pa_counts, pitch.batter_id) + 1,
          high_mmi_moments_in_game |-> count_of(st.high_mmi_counts, pitch.batter_id)]

\* one iteration of the loop over pitches
game_step(st, pitch, role, now) ==
    Bind(compute_pitch_mmi(st.calculator, pitch, role,
                           Some(game_context(st, pitch, role)), now).value,
         LAMBDA r :
           LET player_id == IF role = "pitcher" THEN pitch.pitcher_id
                            ELSE pitch.batter_id
           IN  [calculator |-> r.self,
                pitcher_pitch_counts |->
                    IF role = "pitcher"
                    THEN count_incr(st.pitcher_pitch_counts, pitch.pitcher_id)
                    ELSE st.pitcher_pitch_counts,
                batter_pa_counts |->
                    IF role = "pitcher" THEN st.batter_pa_counts
                    ELSE count_incr(st.batter_pa_counts, pitch.batter_id),
                high_mmi_counts |->
                    IF FLess(FromInt(2), r.result.mmi)
                    THEN count_incr(st.high_mmi_counts, player_id)
                    ELSE st.high_mmi_counts,
                results |-> Append(st.results, r.result)])

\* the loop of compute_game_mmi from pitch i on: the loop state after the
\* last pitch and the context built for each pitch, or the exception of
\* the first compute_pitch_mmi that raised
RECURSIVE game_loop(_, _, _, _, _)
game_loop(acc, pitches, role, now, i) ==
    IF i > Len(pitches) THEN Ok(acc)
    ELSE Bind(game_context(acc.st, pitches[i], role),
              LAMBDA context :
         Bind(compute_pitch_mmi(acc.st.calculator, pitches[i], role,
                                Some(context), now),
              LAMBDA r :
                IF ~r.ok THEN r
                ELSE game_loop([st |-> game_step(acc.st, pitches[i], role, now),
                                contexts |-> Append(acc.contexts, context)],
                               pitches, role, now, i + 1)))

\* compute_game_mmi(game_id, pitches, league_stats, role) in the year and at
\* the clock reading given: the results, and the contexts of the loop
compute_game_mmi(game_id, pitches, league_stats, role, year, now) ==
    Bind(game_loop([st |-> game_start(league_stats, year, now), contexts |-> <<>>],
                   pitches, role, now, 1),
         LAMBDA r :
           IF ~r.ok THEN r
           ELSE Ok([results |-> r.value.st.results, contexts |-> r.value.contexts]))

\* -------------------------------------------------------------------------
\* aggregate.py: compute_season_mmi
\* -------------------------------------------------------------------------
\* one game of every pitch: the whole stream is one group
games_ungrouped(all_pitches) ==
    IF all_pitches = <<>> THEN <<>>
    ELSE << [game_id |-> all_pitches[1].game_id, game_pitches |-> all_pitches] >>

\* games.items(): the game ids in the order of their first pitch, each with
\* its pitches in the order of the stream
games(all_pitches) ==
    LET ids == { all_pitches[i].game_id : i \in 1..Len(all_pitches) }
        first == [g \in ids |->
                    CHOOSE i \in 1..Len(all_pitches) :
                        /\ all_pitches[i].game_id = g
                        /\ \A j \in 1..(i - 1) : all_pitches[j].game_id # g]
    IN  [k \in 1..Cardinality(ids) |->
            Bind(CHOOSE g \in ids :
                     Cardinality({ h \in ids : first[h] < first[g] }) = k - 1,
                 LAMBDA g :
                   [game_id |-> g,
                    game_pitches |->
                        SelectSeq(all_pitches, LAMBDA p : p.game_id = g)])]

\* the loop of compute_season_mmi over the games from game k on
RECURSIVE season_loop(_, _, _, _, _, _, _)
season_loop(all_results, grouped, league_stats, role, year, now, k) ==
    IF k > Len(grouped) THEN Ok(all_results)
    ELSE Bind(compute_game_mmi(grouped[k].game_id, grouped[k].game_pitches,
                               league_stats, role, year, now),
              LAMBDA r :
                IF ~r.ok THEN r
                ELSE season_loop(all_results \o r.value.results, grouped,
                                 league_stats, role, year, now, k + 1))

\* compute_season_mmi(all_pitches, league_stats, role)
compute_season_mmi(all_pitches, league_stats, role, year, now) ==
    season_loop(<<>>, games(all_pitches), league_stats, role, year, now, 1)

\* -------------------------------------------------------------------------
\* aggregate.py: summarize_mmi_by_player
\* -------------------------------------------------------------------------
\* the number of times 2 divides n
TrailingZeros[n \in Nat \ {0}] ==
    IF n % 2 = 1 THEN 0 ELSE 1 + TrailingZeros[n \div 2]

\* the greatest exponent e such that every value is an integer times 2^e:
\* statistics sums its data as exact fractions
exact_exponent(values) ==
    LET exps == { values[i].e + TrailingZeros[Abs(values[i].m)] :
                    i \in { j \in 1..Len(values) : values[j].m # 0 } }
    IN  IF exps = {} THEN 0 ELSE CHOOSE e \in exps : \A x \in exps : e <= x

\* the values as integers, in units of 2^e
exact_units(values, e) ==
    [i \in 1..Len(values) |->
        IF values[i].m = 0 THEN 0
        ELSE LET tz == TrailingZeros[Abs(values[i].m)]
                 odd == DivTrunc[values[i].m, 2^tz]
             IN  odd * 2^(values[i].e + tz - e)]

\* the float nearest to (n / d) * 2^e, d > 0
FromFraction(n, d, e) ==
    LET q == FromRatio[Abs(n), d]
        r == Float(q.m, q.e + e)
    IN  IF n = 0 THEN FZero ELSE IF n < 0 THEN FNeg(r) ELSE r

\* the float nearest to sqrt(n / d) * 2^e, n >= 0 and d > 0
FSqrtOfFraction(n, d, e) ==
    IF n = 0 THEN FZero
    ELSE LET shift == (30 - BitLen[n]) \div 2
             num == n * 4^shift
             q == num \div d
             r == Isqrt(q)
         IN  FRound[r, e - shift, num % d # 0 \/ r * r # q]

\* statistics.mean of floats: the exact sum, divided and rounded once
statistics_mean(values) ==
    LET e == exact_exponent(values)
    IN  FromFraction(SumSeq(exact_units(values, e)), Len(values), e)

\* the exact sum of the squared deviations from the mean, times n * n, in
\* units of 2^(2 * e)
squared_deviations(values, e) ==
    LET units == exact_units(values, e)
        total == SumSeq(units)
        n == Len(values)
    IN  SumSeq([i \in 1..n |-> (n * units[i] - total) * (n * units[i] - total)])

\* statistics.stdev: the exact sum of squares over n - 1
statistics_stdev(values) ==
    LET e == exact_exponent(values)
        n == Len(values)
    IN  FSqrtOfFraction(squared_deviations(values, e), n * n * (n - 1), e)

\* the values as they are, in the order of the results
unsorted_floats(values) == values

\* list.sort() and sorted() of floats
sorted_floats(values) ==
    [i \in 1..Len(values) |->
        CHOOSE v \in { values[j] : j \in 1..Len(values) } :
            /\ Cardinality({ j \in 1..Len(values) : FLess(values[j], v) }) < i
            /\ i <= Cardinality({ j \in 1..Len(values) : ~FLess(v, values[j]) })]

\* statistics.median: the middle of the sorted data, or the mean of the
\* two middle values
statistics_median(values) ==
    LET data == sorted_floats(values)
        n == Len(data)
    IN  IF n % 2 = 1 THEN data[n \div 2 + 1]
        ELSE FDiv[FAdd[data[n \div 2], data[n \div 2 + 1]], FromInt(2)]

\* int(k) of a float k >= 0
FloatToInt(k) == IF k.e >= 0 THEN k.m * 2^k.e ELSE k.m \div 2^(-k.e)

\* the nested percentile(p) over the sorted mmi_values (0-based f and c)
percentile(mmi_values_sorted, p) ==
    LET n == Len(mmi_values_sorted)
    IN  IF n = 0 THEN FZero
        ELSE LET k == FromRatio[(n - 1) * p, 100]
                 f == FloatToInt(k)
                 c == IF FLess(k, FromInt(n - 1)) THEN f + 1 ELSE f
             IN  FAdd[mmi_values_sorted[f + 1],
                      FMul(FSub(mmi_values_sorted[c + 1], mmi_values_sorted[f + 1]),
                           FSub(k, FromInt(f)))]

\* result.pitcher_id if role == "pitcher" else result.batter_id
player_of(result, role) ==
    IF role = "pitcher" THEN result.pitcher_id ELSE result.batter_id

\* the results of either role, grouped by the player id of the role
player_results_any_role(mmi_results, role) ==
    [player_id \in { player_of(mmi_results[i], role) : i \in 1..Len(mmi_results) } |->
        SelectSeq(mmi_results, LAMBDA r : player_of(r, role) = player_id)]

\* player_results: the results of the role, grouped by player
player_results(mmi_results, role) ==
    LET kept == SelectSeq(mmi_results, LAMBDA r : r.role = role)
    IN  [player_id \in { player_of(kept[i], role) : i \in 1..Len(kept) } |->
            SelectSeq(kept, LAMBDA r : player_of(r, role) = player_id)]

\* player_results.items(): the players in the order of their first result
player_order(mmi_results, role) ==
    LET kept == SelectSeq(mmi_results, LAMBDA r : r.role = role)
        players == { player_of(kept[i], role) : i \in 1..Len(kept) }
        first == [p \in players |->
                    CHOOSE i \in 1..Len(kept) :
                        /\ player_of(kept[i], role) = p
                        /\ \A j \in 1..(i - 1) : player_of(kept[j], role) # p]
    IN  [k \in 1..Cardinality(players) |->
            CHOOSE p \in players :
                Cardinality({ q \in players : first[q] < first[p] }) = k - 1]

\* the PlayerMMISummary of one player's results
PlayerMMISummary(player_id, results, role, season, season_type, year) ==
    LET sorted == sorted_floats(mmi_values(results))
        n == Len(sorted)
    IN  [player_id |-> player_id,
         role |-> role,
         season |-> IF season.is_none \/ season.value = 0 THEN year
                    ELSE season.value,
         season_type |-> season_type,
         total_pitches |-> Len(results),
         total_games |-> Cardinality({ results[i].game_id : i \in 1..Len(results) }),
         mean_mmi |-> statistics_mean(sorted),
         median_mmi |-> statistics_median(sorted),
         std_mmi |-> IF n > 1 THEN statistics_stdev(sorted) ELSE FZero,
         p10_mmi |-> percentile(sorted, 10),
         p25_mmi |-> percentile(sorted, 25),
         p75_mmi |-> percentile(sorted, 75),
         p90_mmi |-> percentile(sorted, 90),
         p95_mmi |-> percentile(sorted, 95),
         p99_mmi |-> percentile(sorted, 99),
         high_mmi_count |->
             Cardinality({ i \in 1..n : FLess(FromInt(2), sorted[i]) }),
         extreme_mmi_count |->
             Cardinality({ i \in 1..n : FLess(FromInt(3), sorted[i]) }),
         avg_leverage |-> mean_raw(results, "leverage_index"),
         avg_pressure |-> mean_raw(results, "pressure_score"),
         avg_fatigue |-> mean_raw(results, "fatigue_score"),
         avg_execution |-> mean_raw(results, "execution_windows"),
         avg_bio |-> mean_raw(results, "bio_proxies")]

\* summarize_mmi_by_player called in the year given: one summary a player
summarize_mmi_by_player(mmi_results, role, season, season_type, year) ==
    LET groups == player_results(mmi_results, role)
        order == player_order(mmi_results, role)
    IN  [k \in 1..Len(order) |->
            PlayerMMISummary(order[k], groups[order[k]], role, season,
                             season_type, year)]

\* -------------------------------------------------------------------------
\* aggregate.py: get_high_mmi_moments
\* -------------------------------------------------------------------------
\* [r for r in mmi_results if r.mmi >= threshold]
high_moments(mmi_results, threshold) ==
    SelectSeq(mmi_results, LAMBDA r : ~FLess(r.mmi, threshold))

\* the list as it is
in_given_order(results) == results

\* sort(key=lambda r: r.mmi, reverse=True): descending by mmi, results of
\* equal mmi in the order they had
sort_by_mmi_descending(results) ==
    [k \in 1..Len(results) |->
        results[CHOOSE i \in 1..Len(results) :
            Cardinality({ j \in 1..Len(results) : FLess(results[i].mmi, results[j].mmi) })
              + Cardinality({ j \in 1..(i - 1) : results[j].mmi = results[i].mmi })
                = k - 1]]

\* high_moments[:limit], limit >= 0
up_to_limit(results, limit) == SubSeq(results, 1, Min(limit, Len(results)))

\* get_high_mmi_moments(mmi_results, threshold, limit)
get_high_mmi_moments(mmi_results, threshold, limit) ==
    up_to_limit(sort_by_mmi_descending(high_moments(mmi_results, threshold)), limit)

\* -------------------------------------------------------------------------
\* State
\* -------------------------------------------------------------------------
VARIABLES
    cache,      \* LeverageIndexCalculator._cache of the sequential calculator
    lev_log,    \* every (game state, value) a call on it has returned
    lev_last,   \* the last call: its pitch, the value returned, hit or miss,
                \* and the pitch of the call before it
    lev_calls   \* number of calls made

levVars == <<cache, lev_log, lev_last, lev_calls>>

VARIABLES
    conc_cache, \* _cache of the calculator shared by the workers
    wk,         \* each worker's position in calculate_leverage_for_pitch
                \* and its local variables
    conc_log,   \* every (game state, value) a worker's call has returned
    conc_calls  \* number of calls each worker has started

concVars == <<conc_cache, wk, conc_log, conc_calls>>

VARIABLES
    sc,         \* a Scaler
    sc_last,    \* the last operation on it: its arguments and result, the
                \* std its constructor was given, whether it was fitted since
    sc_ops      \* number of operations made on it

scalerVars == <<sc, sc_last, sc_ops>>

VARIABLES
    sset,       \* an MMIScalerSet
    sfile,      \* the file it is saved to and loaded from
    sfile_src,  \* the set whose save wrote the file, if a save did
    loaded,     \* the set the last load returned, if it returned
    loaded_src, \* sfile_src at that load
    load_error, \* the exception the last load raised, if it raised
    set_ops     \* number of operations made

setVars == <<sset, sfile, sfile_src, loaded, loaded_src, load_error, set_ops>>

VARIABLES
    calc,       \* what MMICalculator(...) last returned or raised
    ctor,       \* the arguments of that construction
    clock,      \* the last reading of datetime.utcnow()
    mmi_log,    \* the compute_pitch_mmi calls made on the calculator, in
                \* order: arguments, outcome, cache hit or miss
    pa_log,     \* the compute_pa_mmi calls made on it, in order: arguments,
                \* outcome, the results of its loop, and the number of
                \* compute_pitch_mmi calls logged before it
    mmi_ops     \* number of constructions and calls made

mmiVars == <<calc, ctor, clock, mmi_log, pa_log, mmi_ops>>

VARIABLES
    heap,       \* the MMIScalerSet objects of the API process, by reference
    active,     \* api._scaler_set: a reference into heap, 0 for None
    rl,         \* the reload_scalers request in progress: position, local
                \* variables, and the active set when it started
    ev,         \* the get_game_mmi request in progress: position, local
                \* variables, and the active set when it started
    api_ops     \* number of requests started, by endpoint

apiVars == <<heap, active, rl, ev, api_ops>>

VARIABLES
    wp_args,    \* the arguments the calls on a WinProbabilityModel share
    wp_cur,     \* its latest call: the method, the arguments that vary, the
                \* value returned
    wp_prev     \* the call before it, when both were calculate_win_prob

wpVars == <<wp_args, wp_cur, wp_prev>>

VARIABLES
    season_results, \* the mmi_results a season's summaries are made from
    summary_call,   \* the arguments of the latest summarize_mmi_by_player
    summaries,      \* the list it returned
    moments_call,   \* the arguments of the latest get_high_mmi_moments
    moments         \* the list it returned

sumVars == <<season_results, summary_call, summaries, moments_call, moments>>

VARIABLES
    all_pitches,    \* the pitch stream given to compute_season_mmi and
                    \* compute_game_mmi
    agg_call        \* the latest call of either: the function, the role, what
                    \* it returned or raised and, for compute_game_mmi, the
                    \* context of each turn of its loop

aggVars == <<all_pitches, agg_call>>

VARIABLES
    feat_pitch,     \* the pitch whose count and execution difficulty are asked
    feat_call       \* the latest call on it: the method, and what it returned
                    \* as a flag (the Count methods) or a score in thousandths

featVars == <<feat_pitch, feat_call>>

vars == <<levVars, concVars, scalerVars, setVars, mmiVars, apiVars, wpVars, sumVars, aggVars, featVars>>

\* what each subsystem's actions leave alone
notLev == <<concVars, scalerVars, setVars, mmiVars, apiVars, wpVars, sumVars, aggVars, featVars>>
notConc == <<levVars, scalerVars, setVars, mmiVars, apiVars, wpVars, sumVars, aggVars, featVars>>
notScaler == <<levVars, concVars, setVars, mmiVars, apiVars, wpVars, sumVars, aggVars, featVars>>
notSet == <<levVars, concVars, scalerVars, mmiVars, apiVars, wpVars, sumVars, aggVars, featVars>>
notMmi == <<levVars, concVars, scalerVars, setVars, apiVars, wpVars, sumVars, aggVars, featVars>>
notApi == <<levVars, concVars, scalerVars, setVars, mmiVars, wpVars, sumVars, aggVars, featVars>>
notWp == <<levVars, concVars, scalerVars, setVars, mmiVars, apiVars, sumVars, aggVars, featVars>>
notSum == <<levVars, concVars, scalerVars, setVars, mmiVars, apiVars, wpVars, aggVars, featVars>>
notAgg == <<levVars, concVars, scalerVars, setVars, mmiVars, apiVars, wpVars, sumVars, featVars>>
notFeat == <<levVars, concVars, scalerVars, setVars, mmiVars, apiVars, wpVars, sumVars, aggVars>>

\* -------------------------------------------------------------------------
\* The state after construction
\* -------------------------------------------------------------------------
NoCall == [pitch |-> Pitch(1, TRUE, 0, EmptyBases, 0, 0), value |-> 0,
           hit |-> FALSE, made |-> FALSE,
           prev |-> Pitch(1, TRUE, 0, EmptyBases, 0, 0)]

LevIdle ==
    /\ cache = EmptyCache
    /\ lev_log = {}
    /\ lev_last = NoCall
    /\ lev_calls = 0

Workers == {1, 2}

IdleWorker ==
    [pc |-> "idle", pitch |-> Pitch(1, TRUE, 0, EmptyBases, 0, 0),
     cache_key |-> "", leverage |-> 0]

ConcIdle ==
    /\ conc_cache = EmptyCache
    /\ wk = [w \in Workers |-> IdleWorker]
    /\ conc_log = {}
    /\ conc_calls = [w \in Workers |-> 0]

\* Scaler()
ScalerIdle ==
    /\ sc = Scaler(FZero, FOne, "feature")
    /\ sc_last = [op |-> "init", std_given |-> FOne, fitted |-> FALSE,
                  values |-> <<>>, value |-> FZero, result |-> FZero]
    /\ sc_ops = 0

\* MMIScalerSet(), nothing saved or loaded
SetIdle ==
    /\ sset = MMIScalerSet
    /\ sfile = NoFile
    /\ sfile_src = None
    /\ loaded = None
    /\ loaded_src = None
    /\ load_error = ""
    /\ set_ops = 0

\* the year of a clock reading


YearAt(t) == 2025 + t \div 20

\* MMICalculator(), nothing computed
MmiIdle ==
    /\ calc = MMICalculator(None, None, YearAt(0), 0)
    /\ ctor = [scaler_set |-> None, custom_weights |-> None, at |-> 0]
    /\ clock = 0
    /\ mmi_log = <<>>
    /\ pa_log = <<>>
    /\ mmi_ops = 0

RlIdle ==
    [pc |-> "idle", file |-> NoFile, ref |-> 0, k |-> 0, status |-> 0,
     before_ref |-> 0, before_set |-> MMIScalerSet]

EvIdle ==
    [pc |-> "idle", game_id |-> "", role |-> "", pitches |-> <<>>,
     src |-> 0, S |-> MMIScalerSet, swap_at |-> -1,
     league_stats |-> to_league_stats(MMIScalerSet, 0, 0, 0),
     st |-> game_start(to_league_stats(MMIScalerSet, 0, 0, 0), 0, 0),
     status |-> 0]

\* the API module imported, startup_event not yet run
ApiIdle ==
    /\ heap = <<>>
    /\ active = 0
    /\ rl = RlIdle
    /\ ev = EvIdle
    /\ api_ops = [startup |-> 0, reload |-> 0, eval |-> 0]

\* no call made on the WinProbabilityModel
NoEval == [method |-> "", home_score |-> 0, outs |-> 0, value |-> 0]

\* WinProbabilityModel(): arguments of the first inning, nothing evaluated
WpIdle ==
    /\ wp_args = [inning |-> 1, top_of_inning |-> TRUE, outs |-> 0,
                  base_state |-> EmptyBases, away_score |-> 0,
                  is_home_batting |-> FALSE]
    /\ wp_cur = NoEval
    /\ wp_prev = NoEval

NoSummaryCall == [role |-> "", season |-> None, season_type |-> ""]

\* no results gathered, nothing summarized
NoMomentsCall == [called |-> FALSE, threshold |-> FZero, limit |-> 0]

\* no results gathered, nothing summarized, no moments asked for
SumIdle ==
    /\ season_results = <<>>
    /\ summary_call = NoSummaryCall
    /\ summaries = <<>>
    /\ moments_call = NoMomentsCall
    /\ moments = <<>>

NoAggCall == [function |-> "", role |-> "", outcome |-> Ok(<<>>), contexts |-> <<>>]

\* no pitches streamed, nothing aggregated
AggIdle ==
    /\ all_pitches = <<>>
    /\ agg_call = NoAggCall

NoFeatCall == [method |-> "", flag |-> FALSE, score |-> 0]

\* no pitch asked about
FeatIdle ==
    /\ feat_pitch = Pitch(1, TRUE, 0, EmptyBases, 0, 0)
    /\ feat_call = NoFeatCall

AllIdle ==
    /\ LevIdle /\ ConcIdle /\ ScalerIdle /\ SetIdle /\ MmiIdle /\ ApiIdle
    /\ WpIdle /\ SumIdle /\ AggIdle /\ FeatIdle

\* -------------------------------------------------------------------------
\* Sequential use of one LeverageIndexCalculator
\* -------------------------------------------------------------------------
MaxCalls == 3

\* inning 9, top half, 1 out, runner on first, 2-2
LevBaseState ==
    [ inning |-> 9, top_of_inning |-> TRUE, outs |-> 1,
      base_state |-> BaseState(TRUE, FALSE, FALSE),
      home_score |-> 2, away_score |-> 2 ]

FieldDistance(s, t) ==
    Cardinality({ f \in DOMAIN s : s[f] # t[f] })

\* The base state and every state that differs from it in one field
LevGameStates ==
    { s \in [ inning : {8, 9}, top_of_inning : BOOLEAN, outs : {1, 2},
              base_state : { BaseState(TRUE, FALSE, FALSE),
                             BaseState(FALSE, TRUE, TRUE) },
              home_score : {2, 3}, away_score : {2, 3} ] :
        FieldDistance(s, LevBaseState) <= 1 }

\* Pitches over those states, varying fields that are not game state
LevPitches ==
    { [ Pitch(s.inning, s.top_of_inning, s.outs, s.base_state,
              s.home_score, s.away_score)
        EXCEPT !.batter_id = o[1], !.velocity = o[2] ] :
      s \in LevGameStates, o \in {<<"b1", 0>>, <<"b2", 95 * Milli>>} }

CalculateLeverageForPitch(p) ==
    /\ lev_calls < MaxCalls
    /\ \E r \in {calculate_leverage_for_pitch(cache, p)} :
           /\ cache' = r.cache
           /\ lev_log' = lev_log \cup {<<GameStateOf(p), r.value>>}
           /\ lev_last' = [pitch |-> p, value |-> r.value, hit |-> r.hit,
                           made |-> TRUE, prev |-> lev_last.pitch]
    /\ lev_calls' = lev_calls + 1
    /\ UNCHANGED notLev

\* clear_cache()
ClearCache ==
    /\ cache # EmptyCache
    /\ cache' = EmptyCache
    /\ UNCHANGED <<lev_log, lev_last, lev_calls, notLev>>

InitLev == AllIdle

NextLev ==
    \/ \E p \in LevPitches : CalculateLeverageForPitch(p)
    \/ ClearCache

SpecLev == InitLev /\ [][NextLev]_vars

\* C1: any two calls on one calculator whose pitches agree on the six
\* game-state fields returned the same value, whatever the pitches' other
\* fields and whatever was evaluated (or cleared) in between.
C1_SameStateSameLeverage ==
    \A x \in lev_log : \A y \in lev_log : x[1] = y[1] => x[2] = y[2]

\* C1 witness: the second call was a cache hit on the entry that the first
\* call, for a pitch with another batter and velocity, put there.
C1_Witness ==
    /\ lev_last.made /\ lev_last.hit
    /\ lev_calls = 2
    /\ GameStateOf(lev_last.pitch) = GameStateOf(lev_last.prev)
    /\ lev_last.pitch.batter_id # lev_last.prev.batter_id
    /\ lev_last.pitch.velocity # lev_last.prev.velocity

\* C2: the value a call returns is calculate_leverage_index of the pitch's
\* six game-state fields, and every cache entry is that value for every
\* game state whose key it is stored under.
C2_CacheRefinesModel ==
    /\ lev_last.made =>
         lev_last.value = LeverageOfState(GameStateOf(lev_last.pitch))
    /\ \A x \in lev_log : x[2] = LeverageOfState(x[1])
    /\ \A k \in DOMAIN cache :
         /\ \E p \in LevPitches : make_cache_key(p) = k
         /\ \A p \in LevPitches :
              make_cache_key(p) = k =>
                cache[k] = LeverageOfState(GameStateOf(p))

\* C2 witness: after a clear, a call was answered from a refilled cache
C2_Witness ==
    /\ lev_last.made /\ lev_last.hit
    /\ lev_calls = MaxCalls
    /\ Cardinality(DOMAIN cache) = 1
    /\ Cardinality(lev_log) = 2

\* -------------------------------------------------------------------------
\* Two workers calling calculate_leverage_for_pitch on one shared calculator.
\* Each dict operation (membership test, read, store) is one atomic step;
\* the workers interleave between them.
\* -------------------------------------------------------------------------
MaxWorkerCalls == 2

\* One pitch per game state: the other fields play no part here
ConcPitches ==
    { Pitch(s.inning, s.top_of_inning, s.outs, s.base_state,
            s.home_score, s.away_score) : s \in LevGameStates }

\* the call is entered: cache_key = self._make_cache_key(pitch)
WorkerStart(w, p) ==
    /\ wk[w].pc = "idle"
    /\ conc_calls[w] < MaxWorkerCalls
    /\ wk' = [wk EXCEPT ![w] = [pc |-> "check", pitch |-> p,
                                cache_key |-> make_cache_key(p),
                                leverage |-> 0]]
    /\ conc_calls' = [conc_calls EXCEPT ![w] = @ + 1]
    /\ UNCHANGED <<conc_cache, conc_log, notConc>>

\* if cache_key in self._cache:
WorkerCheck(w) ==
    /\ wk[w].pc = "check"
    /\ wk' = [wk EXCEPT ![w].pc =
                 IF wk[w].cache_key \in DOMAIN conc_cache
                 THEN "read" ELSE "compute"]
    /\ UNCHANGED <<conc_cache, conc_log, conc_calls, notConc>>

\* return self._cache[cache_key]  (KeyError if the entry is gone)
WorkerRead(w) ==
    /\ wk[w].pc = "read"
    /\ IF wk[w].cache_key \in DOMAIN conc_cache
       THEN /\ conc_log' = conc_log \cup
                   {<<GameStateOf(wk[w].pitch), conc_cache[wk[w].cache_key]>>}
            /\ wk' = [wk EXCEPT ![w] = IdleWorker]
       ELSE /\ wk' = [wk EXCEPT ![w].pc = "KeyError"]
            /\ UNCHANGED conc_log
    /\ UNCHANGED <<conc_cache, conc_calls, notConc>>

\* leverage = self.wp_model.calculate_leverage_index(...)
WorkerCompute(w) ==
    /\ wk[w].pc = "compute"
    /\ wk' = [wk EXCEPT ![w].pc = "store",
                        ![w].leverage = leverage_of_pitch(wk[w].pitch)]
    /\ UNCHANGED <<conc_cache, conc_log, conc_calls, notConc>>

\* self._cache[cache_key] = leverage
WorkerStore(w) ==
    /\ wk[w].pc = "store"
    /\ conc_cache' = cache_put(conc_cache, wk[w].cache_key, wk[w].leverage)
    /\ wk' = [wk EXCEPT ![w].pc = "return"]
    /\ UNCHANGED <<conc_log, conc_calls, notConc>>

\* return leverage
WorkerReturn(w) ==
    /\ wk[w].pc = "return"
    /\ conc_log' = conc_log \cup
           {<<GameStateOf(wk[w].pitch), wk[w].leverage>>}
    /\ wk' = [wk EXCEPT ![w] = IdleWorker]
    /\ UNCHANGED <<conc_cache, conc_calls, notConc>>

InitConc == AllIdle

NextConc ==
    \/ \E w \in Workers, p \in ConcPitches : WorkerStart(w, p)
    \/ \E w \in Workers : WorkerCheck(w)
    \/ \E w \in Workers : WorkerRead(w)
    \/ \E w \in Workers : WorkerCompute(w)
    \/ \E w \in Workers : WorkerStore(w)
    \/ \E w \in Workers : WorkerReturn(w)

SpecConc == InitConc /\ [][NextConc]_vars

\* C6: under every interleaving of two workers' lookup, compute and store
\* steps, every call returns the leverage of its pitch's game state (what a
\* sequential call returns), no call fails, and every cache entry is the
\* leverage of every game state whose key it is stored under.
C6_ConcurrentCallsCorrect ==
    /\ \A x \in conc_log : x[2] = LeverageOfState(x[1])
    /\ \A w \in Workers : wk[w].pc # "KeyError"
    /\ \A k \in DOMAIN conc_cache :
         \A p \in ConcPitches :
            make_cache_key(p) = k =>
              conc_cache[k] = LeverageOfState(GameStateOf(p))

\* C6 witness: both workers missed on the same key; one has stored its
\* value and the other is about to store over it.
C6_Witness ==
    /\ wk[1].pc = "return"
    /\ wk[2].pc = "store"
    /\ wk[1].cache_key = wk[2].cache_key
    /\ wk[1].cache_key \in DOMAIN conc_cache
    /\ conc_log # {}

\* -------------------------------------------------------------------------
\* A Scaler under construction, fit, from_dict and transform
\* -------------------------------------------------------------------------
MaxScalerOps == 3
\* training lists the operations are tried on: empty, of one value, constant
\* and mixed
FitLists ==
    { <<>>,
      <<FromMilli(3000)>>,
      <<FromMilli(900), FromMilli(900), FromMilli(900)>>,
      <<FromMilli(3000), FromMilli(3000)>>,
      <<FromMilli(900), FromMilli(3000)>>,
      <<FromMilli(900), FromMilli(1500), FromMilli(3000), FromMilli(1500)>> }

IsConstantList(values) ==
    values # <<>> /\ \A i \in 1..Len(values) : values[i] = values[1]

ScalerMeans == {FZero, FromInt(5)}

ScalerStds == {FZero, FromMilli(1500)}

\* Scaler(mean, std)
ScalerInit(mean, std) ==
    /\ sc_ops < MaxScalerOps
    /\ sc' = Scaler(mean, std, "feature")
    /\ sc_last' = [op |-> "init", std_given |-> std, fitted |-> FALSE, values |-> <<>>,
                   value |-> FZero, result |-> FZero]
    /\ sc_ops' = sc_ops + 1
    /\ UNCHANGED notScaler

\* Scaler.from_dict(data)
ScalerFromDict(data) ==
    /\ sc_ops < MaxScalerOps
    /\ sc' = from_dict(data)
    /\ sc_last' = [op |-> "from_dict", std_given |-> data.std, fitted |-> FALSE,
                   values |-> <<>>,
                   value |-> FZero, result |-> FZero]
    /\ sc_ops' = sc_ops + 1
    /\ UNCHANGED notScaler

\* scaler.fit(values)
ScalerFit(values) ==
    /\ sc_ops < MaxScalerOps
    /\ sc' = fit(sc, values)
    /\ sc_last' = [op |-> "fit", std_given |-> sc_last.std_given,
                   fitted |-> sc_last.fitted \/ values # <<>>,
                   values |-> values, value |-> FZero, result |-> FZero]
    /\ sc_ops' = sc_ops + 1
    /\ UNCHANGED notScaler

\* scaler.transform(value)
ScalerTransform(value) ==
    /\ sc_ops < MaxScalerOps
    /\ sc_last' = [op |-> "transform", std_given |-> sc_last.std_given,
                   fitted |-> sc_last.fitted, values |-> sc_last.values, value |-> value,
                   result |-> transform(sc, value)]
    /\ sc_ops' = sc_ops + 1
    /\ UNCHANGED <<sc, notScaler>>

InitScaler == AllIdle

NextScaler ==
    \/ \E mean \in ScalerMeans, std \in ScalerStds : ScalerInit(mean, std)
    \/ \E mean \in ScalerMeans, std \in ScalerStds :
          ScalerFromDict([mean |-> mean, std |-> std])
    \/ \E values \in FitLists : ScalerFit(values)
    \/ \E value \in {FromInt(10), FromMilli(900)} : ScalerTransform(value)

SpecScaler == InitScaler /\ [][NextScaler]_vars

\* C7: after any sequence of Scaler construction, from_dict, fit, and set
\* save and load, every scaler's std is non-zero and no saved document holds
\* a zero std; a std given as zero to the constructor or in a dictionary,
\* and the std fitted from a constant list, is 1.0.
C7_StdNeverZero ==
    /\ sc.std.m # 0
    /\ \A i \in 1..5 : sset[ScalerFields[i]].std.m # 0
    /\ ~loaded.is_none => \A i \in 1..5 : loaded.value[ScalerFields[i]].std.m # 0
    /\ ~sfile_src.is_none =>
          \A i \in 1..5 : sfile.data.scalers[ScalerKeys[i]].std.digits # 0
    /\ sc_last.op \in {"init", "from_dict"} /\ sc_last.std_given.m = 0 => sc.std = FOne
    /\ sc_last.op = "fit" /\ IsConstantList(sc_last.values) => sc.std = FOne

\* C8: transform on a Scaler constructed with std = 0 returns 0.0 for every
\* value.
C8_ZeroStdTransformIsZero ==
    sc_last.op = "transform" /\ sc_last.std_given.m = 0 /\ ~sc_last.fitted
        => sc_last.result = FZero

\* -------------------------------------------------------------------------
\* An MMIScalerSet under fit, save and load, and the file it is saved to
\* -------------------------------------------------------------------------
MaxSetOps == 3

Years == {2025, 2026}

Clocks == {17}

\* the second training list of a fit
OtherLists == { <<>>, <<FromMilli(900), FromMilli(3000)>> }

\* files written by something other than save: a valid document with a
\* zero std, and documents that do not load
ZeroStdData ==
    [save(MMIScalerSet) EXCEPT !.scalers.fatigue.std = Decimal(FALSE, 0, 0)]

MissingEntryFile ==
    JsonFile([metadata |-> save(MMIScalerSet).metadata,
              scalers |-> [leverage |-> save(MMIScalerSet).scalers.leverage,
                           pressure |-> save(MMIScalerSet).scalers.pressure]])

MissingStdFile ==
    JsonFile([metadata |-> save(MMIScalerSet).metadata,
              scalers |-> [save(MMIScalerSet).scalers EXCEPT
                             !.execution = [name |-> "execution",
                                            mean |-> Decimal(FALSE, 3, 0)]]])

BadDateFile ==
    JsonFile([save(MMIScalerSet) EXCEPT
                !.metadata.last_updated = Some([well_formed |-> FALSE, digits |-> <<>>])])

NoScalersFile == JsonFile([metadata |-> save(MMIScalerSet).metadata])

BareFile ==
    JsonFile([scalers |-> [k \in {ScalerKeys[i] : i \in 1..5} |->
                             [mean |-> Decimal(FALSE, 25, -1),
                              std |-> Decimal(FALSE, 12, -1)]]])

ExternalFiles ==
    {NoFile, GarbageFile, JsonArrayFile, JsonFile(ZeroStdData), MissingEntryFile,
     MissingStdFile, BadDateFile, NoScalersFile, BareFile}

\* MMIScalerSet()
SetNew ==
    /\ set_ops < MaxSetOps
    /\ sset' = MMIScalerSet
    /\ set_ops' = set_ops + 1
    /\ UNCHANGED <<sfile, sfile_src, loaded, loaded_src, load_error, notSet>>

\* create_default_scalers()
SetCreateDefault(year, now) ==
    /\ set_ops < MaxSetOps
    /\ sset' = create_default_scalers(year, now)
    /\ set_ops' = set_ops + 1
    /\ UNCHANGED <<sfile, sfile_src, loaded, loaded_src, load_error, notSet>>

\* scaler_set.fit(...)
SetFit(a, b, season, now) ==
    /\ set_ops < MaxSetOps
    /\ sset' = MMIScalerSet_fit(sset, a, b, a, b, b, season, "regular", now)
    /\ set_ops' = set_ops + 1
    /\ UNCHANGED <<sfile, sfile_src, loaded, loaded_src, load_error, notSet>>

\* scaler_set.save(path)
SetSave ==
    /\ set_ops < MaxSetOps
    /\ sfile' = JsonFile(save(sset))
    /\ sfile_src' = Some(sset)
    /\ set_ops' = set_ops + 1
    /\ UNCHANGED <<sset, loaded, loaded_src, load_error, notSet>>

\* the file is replaced from outside the program
ExternalWrite(f) ==
    /\ set_ops < MaxSetOps
    /\ sfile' = f
    /\ sfile_src' = None
    /\ set_ops' = set_ops + 1
    /\ UNCHANGED <<sset, loaded, loaded_src, load_error, notSet>>

\* MMIScalerSet.load(path)
SetLoad ==
    /\ set_ops < MaxSetOps
    /\ \E r \in {load(sfile)} :
          IF r.ok
          THEN /\ loaded' = Some(r.value)
               /\ loaded_src' = sfile_src
               /\ load_error' = ""
          ELSE /\ loaded' = None
               /\ loaded_src' = None
               /\ load_error' = r.error
    /\ set_ops' = set_ops + 1
    /\ UNCHANGED <<sset, sfile, sfile_src, notSet>>

InitScalerSet == AllIdle

NextScalerSet ==
    \/ SetNew
    \/ \E year \in Years, now \in Clocks : SetCreateDefault(year, now)
    \/ \E a \in FitLists, b \in OtherLists, now \in Clocks : SetFit(a, b, 2025, now)
    \/ SetSave
    \/ \E f \in ExternalFiles : ExternalWrite(f)
    \/ SetLoad

SpecScalerSet == InitScalerSet /\ [][NextScalerSet]_vars

\* C9: a set loaded from the file a save wrote has the same five
\* (mean, std) pairs and the same season, season_type and total_pitches as
\* the set that was saved.
C9_SaveLoadRoundTrip ==
    ~loaded.is_none /\ ~loaded_src.is_none =>
        /\ Params(loaded.value) = Params(loaded_src.value)
        /\ loaded.value.season = loaded_src.value.season
        /\ loaded.value.season_type = loaded_src.value.season_type
        /\ loaded.value.total_pitches = loaded_src.value.total_pitches

\* C9 witness: a fitted set was saved and loaded, and one of its means
\* takes every digit repr can print.
C9_Witness ==
    /\ ~loaded.is_none
    /\ ~loaded_src.is_none
    /\ loaded_src.value.total_pitches > 0
    /\ \E i \in 1..5 :
          float_repr[loaded_src.value[ScalerFields[i]].mean].digits
              >= 10^(ReprDigits - 1)

\* -------------------------------------------------------------------------
\* One MMICalculator: construction, compute_pitch_mmi calls, the clock
\* -------------------------------------------------------------------------
MaxMMIOps == 3

MaxClock == 2

\* caller-supplied weights, in thousandths: none, empty, the test's set
\* (sum 1.0), one override (sum 0.995), the set summing to 0.8, a key that
\* is no component, all zero, and a negative total
CustomWeights ==
    { None,
      Some([k \in {} |-> 0]),
      Some([leverage |-> 500, pressure |-> 200, fatigue |-> 100, execution |-> 100, bio |-> 100]),
      Some([leverage |-> 345]),
      Some([leverage |-> 280, pressure |-> 160, fatigue |-> 160, execution |-> 120, bio |-> 80]),
      Some([clutch |-> 500]),
      Some([leverage |-> 0, pressure |-> 0, fatigue |-> 0, execution |-> 0, bio |-> 0]),
      Some([leverage |-> -1350]) }

\* a scaler set fitted on two lists
FittedScalerSet ==
    MMIScalerSet_fit(MMIScalerSet,
                     <<FromMilli(900), FromMilli(3000)>>,
                     <<FromMilli(900), FromMilli(1500), FromMilli(3000), FromMilli(1500)>>,
                     <<FromMilli(900), FromMilli(3000)>>,
                     <<FromMilli(900), FromMilli(3000)>>,
                     <<FromMilli(900), FromMilli(3000)>>,
                     2025, "regular", 0)

\* constructor arguments: the default scalers with each of the weight
\* maps, and the fitted set with the default weights
Constructions ==
    {<<None, w>> : w \in CustomWeights} \cup {<<Some(FittedScalerSet), None>>}

\* a first pitch of a game, and a late pitch of a close postseason game
FirstPitch == Pitch(1, TRUE, 0, EmptyBases, 0, 0)

LatePitch ==
    [ Pitch(8, FALSE, 1, BaseState(TRUE, TRUE, FALSE), 3, 4)
      EXCEPT !.count = Count(3, 1), !.velocity = 97 * Milli,
             !.attendance = 45000, !.is_postseason = TRUE,
             !.time_since_last_pitch = 42 * Milli,
             !.pitch_number = 5, !.at_bat_index = 61 ]

\* a context naming some of the keys compute_pitch_mmi reads
LateContext ==
    Some([pitches_in_game |-> 104, is_starter |-> FALSE,
          previous_pitch_velocity |-> 85 * Milli,
          high_mmi_moments_in_game |-> 2])

\* the (pitch, role, context) of the calls made
MMICalls ==
    { <<FirstPitch, "pitcher", None>>,
      <<LatePitch, "pitcher", LateContext>>,
      <<LatePitch, "batter", LateContext>>,
      <<LatePitch, "batter", None>>,
      <<FirstPitch, "umpire", None>> }

\* a pitch of the bottom of the ninth with the home team ahead, and the
\* next pitch of that plate appearance: the leverage index of both is 0
WalkOffPitch ==
    [ Pitch(9, FALSE, 2, BaseState(FALSE, TRUE, TRUE), 3, 2)
      EXCEPT !.count = Count(3, 2), !.attendance = 40000,
             !.is_postseason = TRUE, !.pitch_id = "p5",
             !.pitch_number = 5, !.at_bat_index = 30 ]

NextWalkOffPitch ==
    [ WalkOffPitch EXCEPT !.velocity = 99 * Milli, !.pitch_id = "p6",
                          !.pitch_number = 6,
                          !.time_since_last_pitch = 25 * Milli ]

\* the late pitch thrown again: another pitch, the same situation
LatePitchAgain ==
    [ LatePitch EXCEPT !.pitch_id = "p2", !.pitch_number = 6 ]

\* plate appearances: one whose second and third pitch tie for the
\* greatest mmi, and one without leverage
MixedPA == <<FirstPitch, LatePitch, LatePitchAgain>>

NoLeveragePA == <<WalkOffPitch, NextWalkOffPitch>>

\* the (pitches, role, aggregation, contexts) of the compute_pa_mmi calls:
\* each aggregation, one that is not known, contexts for the first pitch
\* only, and no pitches
PACalls ==
    { <<MixedPA, "pitcher", "max", None>>,
      <<MixedPA, "pitcher", "weighted", None>>,
      <<NoLeveragePA, "pitcher", "weighted", Some(<<LateContext.value>>)>>,
      <<NoLeveragePA, "batter", "median", None>>,
      <<<<>>, "pitcher", "max", None>> }

\* the compute_pa_mmi calls with aggregation "mean": three pitches, two of
\* them alike, with no contexts; one pitch with its context; two pitches
\* for a role there is not
PAMeanCalls ==
    { <<MixedPA, "pitcher", "mean", None>>,
      <<<<LatePitch>>, "batter", "mean", Some(<<LateContext.value>>)>>,
      <<NoLeveragePA, "umpire", "mean", None>> }

\* the compute_pitch_mmi calls made between them, and the constructions
PAPitchCalls ==
    { <<FirstPitch, "pitcher", None>>,
      <<LatePitch, "batter", LateContext>> }

PAConstructions == { <<Some(FittedScalerSet), None>> }

\* the readings datetime.utcnow() can give after the reading t
Readings(t) == {u \in {t, t + 1} : u <= MaxClock}

\* MMICalculator(scaler_set, custom_weights)
NewCalculator(scaler_set, custom_weights) ==
    /\ mmi_ops < MaxMMIOps
    /\ calc' = MMICalculator(scaler_set, custom_weights, YearAt(clock), clock)
    /\ ctor' = [scaler_set |-> scaler_set, custom_weights |-> custom_weights,
                at |-> clock]
    /\ mmi_log' = <<>>
    /\ pa_log' = <<>>
    /\ mmi_ops' = mmi_ops + 1
    /\ UNCHANGED <<clock, notMmi>>

\* calculator.compute_pitch_mmi(pitch, role, context)
ComputePitchMMI(pitch, role, context, now) ==
    /\ mmi_ops < MaxMMIOps
    /\ calc.ok
    /\ now \in Readings(clock)
    /\ \E r \in {compute_pitch_mmi(calc.value, pitch, role, context, now)} :
          /\ calc' = IF r.ok THEN Ok(r.value.self) ELSE calc
          /\ mmi_log' = Append(mmi_log,
                [pitch |-> pitch, role |-> role, context |-> context,
                 outcome |-> IF r.ok THEN Ok(r.value.result) ELSE r,
                 hit |-> r.ok /\ r.value.hit])
    /\ clock' = now
    /\ mmi_ops' = mmi_ops + 1
    /\ UNCHANGED <<ctor, pa_log, notMmi>>

\* calculator.compute_pa_mmi(pitches, role, aggregation, contexts); the
\* clock is read once
ComputePaMMI(pitches, role, aggregation, contexts, now) ==
    /\ mmi_ops < MaxMMIOps
    /\ calc.ok
    /\ now \in Readings(clock)
    /\ \E r \in {compute_pa_mmi(calc.value, pitches, role, aggregation, contexts, now)} :
          /\ calc' = Ok(r.self)
          /\ pa_log' = Append(pa_log,
                [pitches |-> pitches, role |-> role,
                 aggregation |-> aggregation, contexts |-> contexts,
                 outcome |-> r.outcome, mmi_results |-> r.mmi_results,
                 after |-> Len(mmi_log)])
    /\ clock' = now
    /\ mmi_ops' = mmi_ops + 1
    /\ UNCHANGED <<ctor, mmi_log, notMmi>>

InitMMI == AllIdle

NextMMI ==
    \/ \E c \in Constructions : NewCalculator(c[1], c[2])
    \/ \E c \in MMICalls, now \in 0..MaxClock :
          ComputePitchMMI(c[1], c[2], c[3], now)

SpecMMI == InitMMI /\ [][NextMMI]_vars

\* pairs of calls in the log that returned and had identical arguments
SameArgumentCalls ==
    { <<i, j>> \in (1..Len(mmi_log)) \X (1..Len(mmi_log)) :
        /\ i < j
        /\ mmi_log[i].outcome.ok
        /\ mmi_log[j].outcome.ok
        /\ mmi_log[i].pitch = mmi_log[j].pitch
        /\ mmi_log[i].role = mmi_log[j].role
        /\ mmi_log[i].context = mmi_log[j].context }

WithoutTimestamp(result) ==
    [f \in DOMAIN result \ {"timestamp"} |-> result[f]]

\* C3 as stated: two calls with identical arguments on the same calculator
\* return results identical in every field of MMIResult, timestamp included.
C3_IdenticalCallsIdenticalResults ==
    \A c \in SameArgumentCalls :
        mmi_log[c[1]].outcome.value = mmi_log[c[2]].outcome.value

\* C3 amended: two calls with identical arguments on the same calculator
\* return results identical in every field of MMIResult except timestamp.
C3_IdenticalExceptTimestamp ==
    \A c \in SameArgumentCalls :
        WithoutTimestamp(mmi_log[c[1]].outcome.value)
            = WithoutTimestamp(mmi_log[c[2]].outcome.value)

\* C3 witness: the first of two identical calls computed the leverage, the
\* second took it from the cache, and the clock moved between them.
C3_Witness ==
    \E c \in SameArgumentCalls :
        /\ ~mmi_log[c[1]].hit
        /\ mmi_log[c[2]].hit
        /\ mmi_log[c[1]].outcome.value.timestamp
              # mmi_log[c[2]].outcome.value.timestamp
        /\ mmi_log[c[1]].outcome.value.components.leverage_index > 0

\* the five component weights of a calculator, and all its weights
FiveWeightSum(weights) ==
    SumOver([k \in WeightKeys |-> weights[k].n], WeightKeys)

AllWeightSum(weights) ==
    SumOver([k \in DOMAIN weights |-> weights[k].n], DOMAIN weights)

\* the denominator the weights of a calculator share
WeightDenominator(weights) == weights["leverage"].d

\* the weights carried by the components of a result
ComponentWeights(c) ==
    [leverage |-> c.weight_leverage, pressure |-> c.weight_pressure,
     fatigue |-> c.weight_fatigue, execution |-> c.weight_execution,
     bio |-> c.weight_bio]

ResultsCarryWeights ==
    \A i \in 1..Len(mmi_log) :
        mmi_log[i].outcome.ok =>
            ComponentWeights(mmi_log[i].outcome.value.components)
                = [k \in WeightKeys |-> calc.value.weights[k]]

KeepsProportions(weights, merged) ==
    \A j, k \in DOMAIN merged :
        weights[j].n * merged[k] = weights[k].n * merged[j]

C11_ConstructionNeverFails ==
    ~ctor.custom_weights.is_none =>
        /\ calc.ok
        /\ LET merged == merge_weights(ctor.custom_weights)
           IN  weights_need_normalizing(SumOver(merged, DOMAIN merged)) =>
                  AllWeightSum(calc.value.weights)
                      = WeightDenominator(calc.value.weights)

\* the latest entry of the log of compute_pitch_mmi calls
LastCall(log) == log[Len(log)]

\* C12: compute_pitch_mmi with a role other than "pitcher" or "batter"
\* raises ValueError, returns no MMIResult and leaves the calculator
\* (leverage cache, weights, scaler set) as it was before the call.
C12_BadRoleRaisesAndChangesNothing ==
    [][(Len(mmi_log') = Len(mmi_log) + 1
          /\ LastCall(mmi_log').role \notin {"pitcher", "batter"})
        => /\ LastCall(mmi_log').outcome = Raise("ValueError")
           /\ calc' = calc]_vars

\* C12 witness: a call with the role "umpire" was made on a calculator
\* whose leverage cache already held an entry, and it raised.
C12_Witness ==
    /\ calc.ok
    /\ DOMAIN calc.value.leverage_cache # {}
    /\ mmi_log # <<>>
    /\ LastCall(mmi_log).role = "umpire"
    /\ ~LastCall(mmi_log).outcome.ok

\* -------------------------------------------------------------------------
\* One MMICalculator under compute_pa_mmi calls, with compute_pitch_mmi
\* calls and constructions between them
\* -------------------------------------------------------------------------
InitPA == AllIdle

NextPA ==
    \/ \E c \in PAConstructions : NewCalculator(c[1], c[2])
    \/ \E c \in PAPitchCalls, now \in 0..MaxClock :
          ComputePitchMMI(c[1], c[2], c[3], now)
    \/ \E c \in PACalls, now \in 0..MaxClock :
          ComputePaMMI(c[1], c[2], c[3], c[4], now)

SpecPA == InitPA /\ [][NextPA]_vars

\* the ten raw and z-scored components of an MMIComponents
TenComponents(c) ==
    [f \in {"leverage_index", "pressure_score", "fatigue_score",
            "execution_windows", "bio_proxies", "z_leverage", "z_pressure",
            "z_fatigue", "z_execution", "z_bio"} |-> c[f]]

\* a logged compute_pa_mmi call ran its loop over every pitch and every
\* pitch had the raw leverage index 0
NoLeverageCall(e) ==
    /\ e.pitches # <<>>
    /\ Len(e.mmi_results) = Len(e.pitches)
    /\ \A k \in 1..Len(e.mmi_results) :
          e.mmi_results[k].components.leverage_index = 0

\* what aggregation "mean" returns for the pitches and contexts of a call
MeanOfCall(e) ==
    compute_pa_mmi(calc.value, e.pitches, e.role, "mean", e.contexts,
                   e.outcome.value.timestamp).outcome

\* C16: compute_pa_mmi with aggregation "weighted" over pitches that all
\* have raw leverage index 0 raises nothing and returns the mmi and the ten
\* raw and z-scored components of aggregation "mean" over the same pitches
\* and contexts.
C16_NoLeverageWeightedIsMean ==
    \A i \in 1..Len(pa_log) :
        (pa_log[i].aggregation = "weighted" /\ NoLeverageCall(pa_log[i])) =>
            /\ pa_log[i].outcome.ok
            /\ MeanOfCall(pa_log[i]).ok
            /\ pa_log[i].outcome.value.mmi = MeanOfCall(pa_log[i]).value.mmi
            /\ TenComponents(pa_log[i].outcome.value.components)
                  = TenComponents(MeanOfCall(pa_log[i]).value.components)

\* C16 witness: a "weighted" call over two pitches without leverage and
\* with different mmi returned the result "mean" builds.
C16_Witness ==
    \E i \in 1..Len(pa_log) :
        /\ pa_log[i].aggregation = "weighted"
        /\ NoLeverageCall(pa_log[i])
        /\ Len(pa_log[i].pitches) = 2
        /\ pa_log[i].mmi_results[1].mmi # pa_log[i].mmi_results[2].mmi
        /\ pa_log[i].outcome.ok
        /\ pa_log[i].outcome.value.meta.aggregation = "mean"

\* the context compute_pa_mmi passes for pitch k
ContextOfPitch(e, k) ==
    IF ~e.contexts.is_none /\ k <= Len(e.contexts.value)
    THEN Some(e.contexts.value[k]) ELSE None

\* result k of the loop of a call is what compute_pitch_mmi returns for
\* pitch k, and it is the first of the results with the greatest mmi
IsPitchResult(e, k) ==
    e.mmi_results[k]
        = compute_pitch_mmi(calc.value, e.pitches[k], e.role,
                            ContextOfPitch(e, k),
                            e.mmi_results[k].timestamp).value.result

IsFirstGreatest(e, k) ==
    /\ \A j \in 1..Len(e.mmi_results) :
          ~FLess(e.mmi_results[k].mmi, e.mmi_results[j].mmi)
    /\ \A j \in 1..(k - 1) :
          FLess(e.mmi_results[j].mmi, e.mmi_results[k].mmi)

\* C17: compute_pa_mmi with aggregation "max" returns unmodified the
\* compute_pitch_mmi result of one of its pitches, the first with the
\* greatest mmi: its mmi is >= the mmi of every pitch, its components and
\* identifiers are those of that pitch, and its metadata has no
\* "aggregation" entry.
C17_MaxReturnsFirstGreatestPitch ==
    \A i \in 1..Len(pa_log) :
        (pa_log[i].aggregation = "max" /\ pa_log[i].outcome.ok) =>
            /\ Len(pa_log[i].mmi_results) = Len(pa_log[i].pitches)
            /\ \E k \in 1..Len(pa_log[i].pitches) :
                  /\ pa_log[i].outcome.value = pa_log[i].mmi_results[k]
                  /\ IsPitchResult(pa_log[i], k)
                  /\ IsFirstGreatest(pa_log[i], k)
                  /\ pa_log[i].outcome.value.pitch_id = pa_log[i].pitches[k].pitch_id
                  /\ pa_log[i].outcome.value.meta.pitch_number
                        = pa_log[i].pitches[k].pitch_number
            /\ "aggregation" \notin DOMAIN pa_log[i].outcome.value.meta

\* C17 witness: of three pitches the second and third tied for the
\* greatest mmi, above the first, and "max" returned the second.
C17_Witness ==
    \E i \in 1..Len(pa_log) :
        /\ pa_log[i].aggregation = "max"
        /\ pa_log[i].outcome.ok
        /\ pa_log[i].pitches = MixedPA
        /\ FLess(pa_log[i].mmi_results[1].mmi, pa_log[i].mmi_results[2].mmi)
        /\ pa_log[i].mmi_results[2].mmi = pa_log[i].mmi_results[3].mmi
        /\ pa_log[i].outcome.value = pa_log[i].mmi_results[2]
        /\ pa_log[i].outcome.value # pa_log[i].mmi_results[3]

\* the calculator as its construction returned it
BuiltCalculator ==
    MMICalculator(ctor.scaler_set, ctor.custom_weights, YearAt(ctor.at), ctor.at)

\* what compute_pitch_mmi returns for a logged call on the calculator as
\* constructed
FreshResult(e) ==
    compute_pitch_mmi(BuiltCalculator.value, e.pitch, e.role, e.context,
                      e.outcome.value.timestamp).value.result

\* C20: after any sequence of compute_pitch_mmi and compute_pa_mmi calls
\* the calculator differs from the one constructed in its leverage memo
\* only, and every compute_pitch_mmi call returned the mmi and the ten raw
\* and z-scored components it returns on the calculator as constructed.
C20_OnlyTheLeverageMemoChanges ==
    calc.ok =>
        /\ [calc.value EXCEPT !.leverage_cache = EmptyCache] = BuiltCalculator.value
        /\ \A i \in 1..Len(mmi_log) :
              mmi_log[i].outcome.ok =>
                  /\ mmi_log[i].outcome.value.mmi = FreshResult(mmi_log[i]).mmi
                  /\ TenComponents(mmi_log[i].outcome.value.components)
                        = TenComponents(FreshResult(mmi_log[i]).components)

\* C20 witness: a compute_pitch_mmi call took its leverage from the memo a
\* compute_pa_mmi call before it had filled, after an earlier call with
\* another pitch and role.
C20_Witness ==
    \E i \in 2..Len(mmi_log) :
        /\ mmi_log[i].outcome.ok
        /\ mmi_log[i].hit
        /\ \A j \in 1..(i - 1) : mmi_log[j].pitch # mmi_log[i].pitch
        /\ \E p \in 1..Len(pa_log) :
              /\ pa_log[p].after < i
              /\ pa_log[p].mmi_results # <<>>

\* -------------------------------------------------------------------------
\* Specification of compute_pa_mmi with aggregation "mean"
\* -------------------------------------------------------------------------
InitPAMean == AllIdle

NextPAMean ==
    \/ \E c \in PAConstructions : NewCalculator(c[1], c[2])
    \/ \E c \in PAMeanCalls, now \in 0..MaxClock :
          ComputePaMMI(c[1], c[2], c[3], c[4], now)

SpecPAMean == InitPAMean /\ [][NextPAMean]_vars

\* a logged compute_pa_mmi call with aggregation "mean" over at least one
\* pitch for a role there is
IsMeanCall(e) ==
    /\ e.aggregation = "mean"
    /\ e.pitches # <<>>
    /\ e.role \in {"pitcher", "batter"}

\* the result of a logged call has the arithmetic mean of the per-pitch
\* results in its mmi and in each raw and z-scored component, the
\* identifiers of the first pitch, and the metadata of "mean"
AveragesEveryField(e) ==
    /\ e.outcome.ok
    /\ Len(e.mmi_results) = Len(e.pitches)
    /\ e.outcome.value.mmi = mean_float(mmi_values(e.mmi_results))
    /\ \A f \in {"leverage_index", "pressure_score", "fatigue_score",
                  "execution_windows", "bio_proxies"} :
          e.outcome.value.components[f]
              = SumSeq(raw_values(e.mmi_results, f)) \div Len(e.pitches)
    /\ \A f \in {"z_leverage", "z_pressure", "z_fatigue", "z_execution", "z_bio"} :
          e.outcome.value.components[f]
              = FDiv[FSum(raw_values(e.mmi_results, f)), FromInt(Len(e.pitches))]
    /\ e.outcome.value.game_id = e.pitches[1].game_id
    /\ e.outcome.value.batter_id = e.pitches[1].batter_id
    /\ e.outcome.value.pitcher_id = e.pitches[1].pitcher_id
    /\ e.outcome.value.inning = e.pitches[1].inning
    /\ e.outcome.value.meta
          = [aggregation |-> "mean", pitch_count |-> Len(e.pitches)]

FAbs(a) == Float(Abs(a.m), a.e)

\* the greatest magnitude among the z-scored components, or 1 if greater
ZMagnitude(c) ==
    LET zs == { FAbs(c[f]) : f \in {"z_leverage", "z_pressure", "z_fatigue",
                                    "z_execution", "z_bio"} } \cup { FromInt(1) }
    IN  CHOOSE z \in zs : \A y \in zs : ~FLess(z, y)

\* a and b differ by no more than the roundings of a weighted sum of five
\* terms and of a mean: 2^4 units in the last place of the scale
WithinRounding(a, b, scale) ==
    ~FLess(FMul(scale, Float(1, 4 - MantissaBits)), FAbs(FSub(a, b)))

MaxReloads == 2

MaxEvals == 1

\* documents written by save: the default set, and a fitted set
DefaultDocument == JsonFile(save(create_default_scalers(2025, 0)))

FittedDocument == JsonFile(save(FittedScalerSet))

\* what startup can find at data/scalers.json
StartupFiles == {NoFile, GarbageFile, FittedDocument}

\* the fitted document cut off after its second scaler entry
TruncatedDocument ==
    JsonFile([metadata |-> FittedDocument.data.metadata,
              scalers |-> [leverage |-> FittedDocument.data.scalers.leverage,
                           pressure |-> FittedDocument.data.scalers.pressure]])

\* what reload_scalers can find at file_path
ReloadFiles ==
    {NoFile, GarbageFile, JsonArrayFile, TruncatedDocument, MissingStdFile,
     DefaultDocument, FittedDocument}

\* data_ingest.fetch_game_pitches: the pitches of the games of the feed
GamePitches ==
    [game1 |->
        <<FirstPitch, LatePitch>>,
     game2 |-> <<>>]

fetch_game_pitches(game_id) == GamePitches[game_id]

\* cls() in MMIScalerSet.load: a new object, and the reference to it
load_cls_in_place(objects, global_ref) ==
    [heap |-> [objects EXCEPT ![global_ref] = MMIScalerSet], ref |-> global_ref]

load_cls(objects, global_ref) ==
    [heap |-> Append(objects, MMIScalerSet), ref |-> Len(objects) + 1]

\* the scaler sets a startup or a completed load can install
InstallableSets ==
    {create_default_scalers(YearAt(t), t) : t \in 0..MaxClock}
    \cup {load(f).value : f \in {g \in ReloadFiles \cup StartupFiles : load(g).ok}}

\* startup_event, with the file found at data/scalers.json
Startup(file) ==
    /\ api_ops.startup = 0
    /\ \E r \in {load(file)} :
          heap' = IF file.exists /\ r.ok THEN <<r.value>>
                  ELSE <<create_default_scalers(YearAt(clock), clock)>>
    /\ active' = 1
    /\ api_ops' = [api_ops EXCEPT !.startup = 1]
    /\ UNCHANGED <<rl, ev, notApi>>

\* reload_scalers, up to the exists() check, with the file found at file_path
ReloadStart(file) ==
    /\ api_ops.startup = 1
    /\ api_ops.reload < MaxReloads
    /\ rl.pc \in {"idle", "done"}
    /\ rl' = [RlIdle EXCEPT
                !.file = file,
                !.before_ref = active,
                !.before_set = heap[active],
                !.pc = IF file.exists THEN "open" ELSE "done",
                !.status = IF file.exists THEN 0 ELSE 404]
    /\ api_ops' = [api_ops EXCEPT !.reload = @ + 1]
    /\ UNCHANGED <<heap, active, ev, notApi>>

\* load: open(file_path) and json.load(f)
ReloadOpen ==
    /\ rl.pc = "open"
    /\ rl' = IF load_open(rl.file).ok THEN [rl EXCEPT !.pc = "new"]
             ELSE [rl EXCEPT !.pc = "done", !.status = 500]
    /\ UNCHANGED <<heap, active, ev, api_ops, notApi>>

\* load: scaler_set = cls()
ReloadNew ==
    /\ rl.pc = "new"
    /\ \E r \in {load_cls(heap, active)} :
          /\ heap' = r.heap
          /\ rl' = [rl EXCEPT !.pc = "metadata", !.ref = r.ref]
    /\ UNCHANGED <<active, ev, api_ops, notApi>>

\* load: "Load metadata"
ReloadMetadata ==
    /\ rl.pc = "metadata"
    /\ \E r \in {load_metadata(rl.file, heap[rl.ref])} :
          IF r.ok
          THEN /\ heap' = [heap EXCEPT ![rl.ref] = r.value]
               /\ rl' = [rl EXCEPT !.pc = "scalers", !.k = 1]
          ELSE /\ heap' = heap
               /\ rl' = [rl EXCEPT !.pc = "done", !.status = 500]
    /\ UNCHANGED <<active, ev, api_ops, notApi>>

\* load: "Load scalers", the next of the five assignments
ReloadScaler ==
    /\ rl.pc = "scalers"
    /\ \E r \in {load_scaler(rl.file, ScalerKeys[rl.k])} :
          IF r.ok
          THEN /\ heap' = [heap EXCEPT ![rl.ref][ScalerFields[rl.k]] = r.value]
               /\ rl' = IF rl.k = 5 THEN [rl EXCEPT !.pc = "assign"]
                        ELSE [rl EXCEPT !.k = @ + 1]
          ELSE /\ heap' = heap
               /\ rl' = [rl EXCEPT !.pc = "done", !.status = 500]
    /\ UNCHANGED <<active, ev, api_ops, notApi>>

\* reload_scalers: _scaler_set = <what load returned>, and the response
ReloadAssign ==
    /\ rl.pc = "assign"
    /\ active' = rl.ref
    /\ rl' = [rl EXCEPT !.pc = "done", !.status = 200]
    /\ ev' = IF ev.pc \in {"build", "loop", "export"}
                /\ Params(heap[rl.ref]) # Params(ev.S)
             THEN [ev EXCEPT !.swap_at = Len(ev.st.results)]
             ELSE ev
    /\ UNCHANGED <<heap, api_ops, notApi>>

\* get_game_mmi up to league_stats = _scaler_set.to_league_stats()
EvalStart(game_id, role) ==
    /\ api_ops.startup = 1
    /\ api_ops.eval < MaxEvals
    /\ ev.pc \in {"idle", "done"}
    /\ ev' = IF active = 0
             THEN [EvIdle EXCEPT !.pc = "done", !.status = 500]
             ELSE IF fetch_game_pitches(game_id) = <<>>
             THEN [EvIdle EXCEPT !.pc = "done", !.status = 404,
                                 !.game_id = game_id, !.role = role]
             ELSE [EvIdle EXCEPT !.pc = "build",
                                 !.game_id = game_id, !.role = role,
                                 !.pitches = fetch_game_pitches(game_id),
                                 !.src = active, !.S = heap[active],
                                 !.league_stats =
                                     to_league_stats(heap[active], 2430,
                                                     YearAt(clock), clock)]
    /\ api_ops' = [api_ops EXCEPT !.eval = @ + 1]
    /\ UNCHANGED <<heap, active, rl, notApi>>

\* compute_game_mmi up to the loop
EvalBuild ==
    /\ ev.pc = "build"
    /\ ev' = [ev EXCEPT !.pc = "loop",
                        !.st = game_start(ev.league_stats, YearAt(clock), clock)]
    /\ UNCHANGED <<heap, active, rl, api_ops, notApi>>

EvalLoopState_global_scalers ==
    [ev.st EXCEPT !.calculator.scaler_set =
        from_league_stats(to_league_stats(heap[active], 2430, YearAt(clock), clock))]

\* the local variables of compute_game_mmi: calculator, counters, results
EvalLoopState == ev.st

\* compute_game_mmi: one iteration of the loop over the pitches
EvalPitch ==
    /\ ev.pc = "loop"
    /\ \E st \in {game_step(EvalLoopState, ev.pitches[Len(ev.st.results) + 1],
                            ev.role, clock)} :
          ev' = [ev EXCEPT !.st = st,
                           !.pc = IF Len(st.results) = Len(ev.pitches)
                                  THEN "export" ELSE "loop"]
    /\ UNCHANGED <<heap, active, rl, api_ops, notApi>>

\* get_game_mmi: the export, the summary and the response
EvalReturn ==
    /\ ev.pc = "export"
    /\ ev' = [ev EXCEPT !.pc = "done", !.status = 200]
    /\ UNCHANGED <<heap, active, rl, api_ops, notApi>>

InitApi == AllIdle

NextApi ==
    \/ \E f \in StartupFiles : Startup(f)
    \/ \E f \in ReloadFiles : ReloadStart(f)
    \/ ReloadOpen
    \/ ReloadNew
    \/ ReloadMetadata
    \/ ReloadScaler
    \/ ReloadAssign
    \/ \E g \in DOMAIN GamePitches, role \in {"pitcher", "batter"} : EvalStart(g, role)
    \/ EvalBuild
    \/ EvalPitch
    \/ EvalReturn

SpecApi == InitApi /\ [][NextApi]_vars

\* C4: when the load of reload_scalers fails (file missing, not JSON, or
\* missing a scaler entry) the request is answered with an error and the
\* active scaler set is the object it was before, its five (mean, std)
\* pairs unchanged; the active set is at every moment one that a startup or
\* a completed load installed, never a partially loaded one.
C4_FailedReloadKeepsActiveSet ==
    /\ rl.pc = "done" =>
          /\ rl.status = 200 <=> rl.file.exists /\ load(rl.file).ok
          /\ rl.status # 200 =>
                /\ rl.status \in {404, 500}
                /\ active = rl.before_ref
                /\ heap[active] = rl.before_set
    /\ rl.pc \notin {"idle", "done"} =>
          /\ active = rl.before_ref
          /\ heap[active] = rl.before_set
    /\ active # 0 => heap[active] \in InstallableSets

\* C4 witness: a load failed on a missing scaler entry after it had put
\* other parameters into its new set, and the active set is another object.
C4_Witness ==
    /\ rl.pc = "done"
    /\ rl.status = 500
    /\ rl.k >= 3
    /\ rl.ref # active
    /\ Params(heap[rl.ref]) # Params(heap[active])
    /\ Params(heap[rl.ref]) # Params(MMIScalerSet)

\* the z-scores a scaler set gives the raw values of a result
ZScoresUnder(scaler_set, c) ==
    transform_all(scaler_set, FromRatio[c.leverage_index, Micro],
                  FromMilli(c.pressure_score), FromMilli(c.fatigue_score),
                  FromMilli(c.execution_windows), FromMilli(c.bio_proxies))

ZScoresOf(c) ==
    [z_leverage |-> c.z_leverage, z_pressure |-> c.z_pressure,
     z_fatigue |-> c.z_fatigue, z_execution |-> c.z_execution,
     z_bio |-> c.z_bio]

\* C5: every pitch of a game evaluation is normalised with the five
\* (mean, std) pairs of the scaler set that was active when the evaluation
\* started, whatever reload_scalers does while it is in progress.
C5_EvaluationUsesItsSnapshot ==
    ev.pc \in {"loop", "export", "done"} =>
        \A i \in 1..Len(ev.st.results) :
            ZScoresOf(ev.st.results[i].components)
                = ZScoresUnder(ev.S, ev.st.results[i].components)

\* C5 witness: a reload installed a set with other parameters while the
\* evaluation was in progress, and a pitch was normalised after that.
C5_Witness ==
    /\ ev.swap_at >= 0
    /\ Len(ev.st.results) > ev.swap_at
    /\ ev.src # active
    /\ \E i \in 1..Len(ev.st.results) :
          /\ i > ev.swap_at
          /\ ZScoresOf(ev.st.results[i].components)
                # ZScoresUnder(heap[active], ev.st.results[i].components)

\* -------------------------------------------------------------------------
\* One WinProbabilityModel: calculate_win_prob, calculate_leverage_index and
\* _get_run_expectancy called on a game situation, the home score and the
\* outs of the lookup varying from call to call
\* -------------------------------------------------------------------------
MaxScore == 3

\* PitchEvent.inning = Field(ge=1, le=20)
MaxInning == 20

\* the outs the lookup is called with: 0..2 and one value on either side
LookupOuts == -1..3

\* the innings called with: from inning 10 on calculate_win_prob reads the
\* inning only through inning >= 9, inning > 9 and
\* max(0.5, innings_remaining) = 0.5, so the innings between 10 and the
\* last repeat inning 10
WPInnings == 1..10 \cup {MaxInning}

\* the situation of test_mmi_high_leverage_situation but for the home
\* score: inning 9, bottom half, 2 outs, runners on second and third, away 2
HighLeverageArguments ==
    [ inning |-> 9, top_of_inning |-> FALSE, outs |-> 2,
      base_state |-> BaseState(FALSE, TRUE, TRUE), away_score |-> 2,
      is_home_batting |-> TRUE ]

\* the arguments the calls share; with the home score in 0..MaxScore the
\* two away scores give every run differential from -MaxScore to MaxScore
WPArguments ==
    [ inning : WPInnings, top_of_inning : BOOLEAN, outs : 0..2,
      base_state : AllBaseStates, away_score : {0, MaxScore},
      is_home_batting : BOOLEAN ]
    \cup {HighLeverageArguments}

\* wp_model.calculate_win_prob(..., home_score, ...)
CalculateWinProb(home_score) ==
    /\ wp_cur' = [method |-> "calculate_win_prob", home_score |-> home_score,
                  outs |-> wp_args.outs,
                  value |-> calculate_win_prob(wp_args.inning,
                                wp_args.top_of_inning, wp_args.outs,
                                wp_args.base_state, home_score,
                                wp_args.away_score, wp_args.is_home_batting)]
    /\ wp_prev' = IF wp_cur.method = "calculate_win_prob" THEN wp_cur ELSE NoEval
    /\ UNCHANGED <<wp_args, notWp>>

\* wp_model.calculate_leverage_index(..., home_score, away_score)
CalculateLeverageIndex(home_score) ==
    /\ wp_cur' = [method |-> "calculate_leverage_index",
                  home_score |-> home_score, outs |-> wp_args.outs,
                  value |-> calculate_leverage_index(wp_args.inning,
                                wp_args.top_of_inning, wp_args.outs,
                                wp_args.base_state, home_score,
                                wp_args.away_score)]
    /\ wp_prev' = NoEval
    /\ UNCHANGED <<wp_args, notWp>>

\* wp_model._get_run_expectancy(outs, base_state)
GetRunExpectancy(outs) ==
    /\ wp_cur' = [method |-> "_get_run_expectancy", home_score |-> 0,
                  outs |-> outs,
                  value |-> get_run_expectancy(outs, wp_args.base_state)]
    /\ wp_prev' = NoEval
    /\ UNCHANGED <<wp_args, notWp>>

InitWP ==
    /\ LevIdle /\ ConcIdle /\ ScalerIdle /\ SetIdle /\ MmiIdle /\ ApiIdle
    /\ AggIdle
    /\ FeatIdle
    /\ SumIdle
    /\ wp_args \in WPArguments
    /\ wp_cur = NoEval
    /\ wp_prev = NoEval

NextWP ==
    \/ \E home_score \in 0..MaxScore : CalculateWinProb(home_score)
    \/ \E home_score \in 0..MaxScore : CalculateLeverageIndex(home_score)
    \/ \E outs \in LookupOuts : GetRunExpectancy(outs)

SpecWP == InitWP /\ [][NextWP]_vars

\* calculate_leverage_index was called on that situation with home 3
IsHighLeverageCall ==
    /\ wp_cur.method = "calculate_leverage_index"
    /\ wp_args = HighLeverageArguments
    /\ wp_cur.home_score = 3

\* the low-leverage situation of test_high_leverage_vs_low_leverage:
\* inning 2, top half, 2 outs, bases empty, home 8, away 0
LowLeverageIndex == calculate_leverage_index(2, TRUE, 2, EmptyBases, 8, 0)

\* C13 as stated: the leverage index of inning 9, bottom half, 2 outs,
\* runners on second and third, home leading 3-2 is greater than 1.5 and
\* greater than that of inning 2, 2 outs, bases empty, home leading by 8.
C13_HighLeverageScenario ==
    IsHighLeverageCall =>
        /\ wp_cur.value > 1500 * Milli
        /\ wp_cur.value > LowLeverageIndex

\* C14: with inning, half, outs, bases, away score and is_home_batting
\* fixed, calculate_win_prob does not decrease when home_score grows.
C14_WinProbMonotoneInHomeScore ==
    ( /\ wp_cur.method = "calculate_win_prob"
      /\ wp_prev.method = "calculate_win_prob"
      /\ wp_prev.home_score <= wp_cur.home_score )
    => wp_prev.value <= wp_cur.value

\* C14 witness: in an early inning the home lead went from 2 to 3, leaving
\* the home-advantage blend, and the win probability rose.
C14_Witness ==
    /\ wp_cur.method = "calculate_win_prob"
    /\ wp_prev.method = "calculate_win_prob"
    /\ wp_args.inning <= 5
    /\ wp_args.away_score = 0
    /\ wp_prev.home_score = 2
    /\ wp_cur.home_score = 3
    /\ wp_prev.value < wp_cur.value

\* the swings calculate_leverage_index simulated in the latest call
SwingsOfCall ==
    leverage_swings(wp_args.inning, wp_args.top_of_inning, wp_args.outs,
                    wp_args.base_state, wp_cur.home_score, wp_args.away_score)

\* C15: for inning 1..20, either half, outs 0..2, any bases and scores,
\* calculate_win_prob returns a value in 0..1 and calculate_leverage_index
\* a value >= 0 from a list of swings that is not empty.
C15_ProbabilityAndLeverageInRange ==
    /\ wp_cur.method = "calculate_win_prob" =>
          wp_cur.value >= 0 /\ wp_cur.value <= Micro
    /\ wp_cur.method = "calculate_leverage_index" =>
          wp_cur.value >= 0 /\ SwingsOfCall # <<>>

\* C15 witness: the leverage index of the last inning allowed, with two
\* outs (no out scenario), came from two swings and is positive.
C15_Witness ==
    /\ wp_cur.method = "calculate_leverage_index"
    /\ wp_args.inning = MaxInning
    /\ wp_args.outs = 2
    /\ Len(SwingsOfCall) = 2
    /\ wp_cur.value > 0

\* the nearest of the outs 0, 1, 2
NearestOuts(outs) == Max(0, Min(2, outs))

\* C19 as stated: the run-expectancy lookup returns, for outs outside
\* 0..2, the entry of the nearest outs (0 below, 2 above) for the same
\* bases, and the entry of the outs given otherwise.
C19_LookupClampsOuts ==
    wp_cur.method = "_get_run_expectancy" =>
        wp_cur.value
            = RUN_EXPECTANCY_MATRIX[<<NearestOuts(wp_cur.outs),
                                      to_code(wp_args.base_state)>>]

\* calculate_win_prob from the run expectancy on, without its test of
\* innings_remaining == 0: the sigmoid of the effective differential over
\* 2 * sqrt(max(0.5, innings_remaining)), the home adjustment and the bounds
sigmoid_win_prob(inning, top_of_inning, outs, base_state, home_score, away_score, is_home_batting) ==
    LET innings_remaining ==
            (9 - inning) * 2 + (IF top_of_inning THEN 0 ELSE 1)
        score_diff == home_score - away_score
        run_expectancy == get_run_expectancy(outs, base_state)
        effective_diff ==
            IF is_home_batting THEN score_diff * Milli + run_expectancy
                               ELSE score_diff * Milli - run_expectancy
        std_dev == Isqrt(2 * Max(1, 2 * innings_remaining) * Micro)
        raw == sigmoid(DivTrunc[effective_diff * Milli, std_dev])
        win_prob ==
            IF Abs(score_diff) <= 2 /\ inning <= 5
            THEN (raw * 9) \div 10 + home_advantage \div 10
            ELSE raw
    IN  Max(0, Min(Micro, win_prob))

\* the latest call is calculate_win_prob in the top of the ninth
IsTopOfNinthCall ==
    /\ wp_cur.method = "calculate_win_prob"
    /\ wp_args.inning = 9
    /\ wp_args.top_of_inning

\* C21 as stated: calculate_win_prob returns 1.0 in the bottom half at
\* inning >= 9 with home leading, 1.0 or 0.0 by leader in the top half at
\* inning > 9 with unequal score, and in every other state the sigmoid
\* value with the half-innings remaining floored at 0.5.
C21_SigmoidOutsideTerminalCases ==
    wp_cur.method = "calculate_win_prob" =>
        wp_cur.value =
            IF wp_args.inning >= 9 /\ ~wp_args.top_of_inning
                /\ wp_cur.home_score > wp_args.away_score
            THEN Micro
            ELSE IF wp_args.inning > 9 /\ wp_args.top_of_inning
                    /\ wp_cur.home_score # wp_args.away_score
            THEN (IF wp_cur.home_score > wp_args.away_score THEN Micro ELSE 0)
            ELSE sigmoid_win_prob(wp_args.inning, wp_args.top_of_inning,
                     wp_args.outs, wp_args.base_state, wp_cur.home_score,
                     wp_args.away_score, wp_args.is_home_batting)

\* the same outside the top of the ninth, the one half-inning with
\* innings_remaining == 0
C21_SigmoidOutsideTopOfNinth ==
    ~IsTopOfNinthCall => C21_SigmoidOutsideTerminalCases

\* C22 as stated: in the walk or single that calculate_leverage_index
\* simulates, first base is occupied afterwards, second is occupied iff
\* first was, third is occupied iff second was, and one run is credited
\* to the batting team iff third was occupied.
C22_WalkAdvancesEveryRunner ==
    wp_cur.method = "calculate_leverage_index" =>
        /\ new_base_walk(wp_args.base_state).runner_on_first
        /\ new_base_walk(wp_args.base_state).runner_on_second
                = wp_args.base_state.runner_on_first
        /\ new_base_walk(wp_args.base_state).runner_on_third
                = wp_args.base_state.runner_on_second
        /\ runs_scored_walk(wp_args.base_state)
                = (IF wp_args.base_state.runner_on_third THEN 1 ELSE 0)

\* what does hold of the simulated walk: first base is occupied, the run
\* is credited iff third was occupied, and the statement about second and
\* third holds when no runner was on either of them
C22_WalkWithSecondAndThirdEmpty ==
    wp_cur.method = "calculate_leverage_index" =>
        /\ new_base_walk(wp_args.base_state).runner_on_first
        /\ runs_scored_walk(wp_args.base_state)
                = (IF wp_args.base_state.runner_on_third THEN 1 ELSE 0)
        /\ (~wp_args.base_state.runner_on_second
                /\ ~wp_args.base_state.runner_on_third
             => /\ new_base_walk(wp_args.base_state).runner_on_second
                    = wp_args.base_state.runner_on_first
                /\ ~new_base_walk(wp_args.base_state).runner_on_third)

\* -------------------------------------------------------------------------
\* Specification of summarize_mmi_by_player over the results of a season
\* -------------------------------------------------------------------------
MaxResults == 3

\* the raw components of a result; the summary reads nothing else of them
SeasonComponents(leverage_index) ==
    [leverage_index |-> leverage_index,
     pressure_score |-> 400,
     fatigue_score |-> 250,
     execution_windows |-> 500,
     bio_proxies |-> 300]

\* MMI values at the threshold 2.0, between the thresholds 2.0 and 3.0, and
\* above both
SeasonMMIValues == { FromInt(2), FromMilli(2500), FromMilli(3500) }

\* the pitch results of two pitchers over two games, and a batter's results
SeasonResults ==
    { [pitch_id |-> "p", game_id |-> k[1], batter_id |-> "b1",
       pitcher_id |-> k[2], inning |-> 1, mmi |-> v,
       components |-> SeasonComponents(IF k[1] = "g1" THEN Micro ELSE 2 * Micro),
       timestamp |-> 0, role |-> k[3],
       meta |-> [at_bat_index |-> 0, pitch_number |-> 1]] :
        k \in { <<"g1", "h1", "pitcher">>, <<"g2", "h1", "pitcher">>,
                <<"g1", "h2", "pitcher">>, <<"g1", "h1", "batter">> },
        v \in SeasonMMIValues }

SeasonResultLists ==
    UNION { [1..n -> SeasonResults] : n \in 0..MaxResults }

SummaryCalls == { <<"pitcher", Some(2024)>>, <<"batter", None>> }

\* summaries = summarize_mmi_by_player(mmi_results, role=role, season=season)
SummarizeMMIByPlayer(role, season) ==
    /\ summary_call' = [role |-> role, season |-> season, season_type |-> "regular"]
    /\ summaries' = summarize_mmi_by_player(season_results, role, season,
                                            "regular", YearAt(clock))
    /\ UNCHANGED <<season_results, moments_call, moments, notSum>>

InitSummary ==
    /\ LevIdle /\ ConcIdle /\ ScalerIdle /\ SetIdle /\ MmiIdle /\ ApiIdle
    /\ AggIdle
    /\ FeatIdle
    /\ WpIdle
    /\ season_results \in SeasonResultLists
    /\ summary_call = NoSummaryCall
    /\ summaries = <<>>
    /\ moments_call = NoMomentsCall
    /\ moments = <<>>

NextSummary ==
    \/ \E call \in SummaryCalls : SummarizeMMIByPlayer(call[1], call[2])

SpecSummary == InitSummary /\ [][NextSummary]_vars

\* a <= b
FLessEq(a, b) == ~FLess(b, a)

\* the percentile fields of a summary and its median, in the order of the
\* percentiles
PercentileChain(s) ==
    <<s.p10_mmi, s.p25_mmi, s.median_mmi, s.p75_mmi, s.p90_mmi, s.p95_mmi, s.p99_mmi>>

\* C18: in every summary made from at least two results,
\* p10 <= p25 <= median <= p75 <= p90 <= p95 <= p99
C18_PercentilesAreOrdered ==
    \A k \in 1..Len(summaries) :
        summaries[k].total_pitches >= 2 =>
            \A i \in 1..6 : FLessEq(PercentileChain(summaries[k])[i],
                                    PercentileChain(summaries[k])[i + 1])

\* C18 witness: a summary of three results that arrived out of order, whose
\* percentiles are all different
C18_Witness ==
    /\ summary_call.role = "pitcher"
    /\ Len(season_results) = 3
    /\ FLess(season_results[2].mmi, season_results[1].mmi)
    /\ FLess(season_results[3].mmi, season_results[2].mmi)
    /\ \E k \in 1..Len(summaries) :
        /\ summaries[k].total_pitches = 3
        /\ \A i \in 1..6 : FLess(PercentileChain(summaries[k])[i],
                                 PercentileChain(summaries[k])[i + 1])

\* the mmi values of the results a summary was made from
GroupValues(summary) ==
    mmi_values(player_results(season_results, summary_call.role)[summary.player_id])

\* the population standard deviation: the square root of the exact sum of
\* squared deviations from the mean over n
population_std(values) ==
    LET e == exact_exponent(values)
        n == Len(values)
    IN  FSqrtOfFraction(squared_deviations(values, e), n * n * n, e)

\* C24 as stated: the std_mmi of each player summary is the population
\* standard deviation of the group's mmi values, for every group size
\* N >= 1.
C24_StdIsPopulationStd ==
    \A k \in 1..Len(summaries) :
        summaries[k].std_mmi = population_std(GroupValues(summaries[k]))

\* what holds instead: std_mmi is 0.0 for one result and the sample
\* standard deviation (the sum of squares over N - 1) for more, which is
\* the population standard deviation only if all the values are equal
C24_StdIsSampleStd ==
    \A k \in 1..Len(summaries) :
        /\ summaries[k].total_pitches = Len(GroupValues(summaries[k]))
        /\ summaries[k].total_pitches = 1 => summaries[k].std_mmi = FZero
        /\ summaries[k].total_pitches > 1 =>
              /\ summaries[k].std_mmi = statistics_stdev(GroupValues(summaries[k]))
              /\ ~FLess(summaries[k].std_mmi, population_std(GroupValues(summaries[k])))
              /\ (summaries[k].std_mmi = population_std(GroupValues(summaries[k]))
                    <=> \A i \in 1..Len(GroupValues(summaries[k])) :
                            GroupValues(summaries[k])[i] = GroupValues(summaries[k])[1])

\* the positions in season_results of the results of the requested role
\* that belong to a player
ResultsOf(player_id) ==
    { i \in 1..Len(season_results) :
        /\ season_results[i].role = summary_call.role
        /\ player_id = (IF summary_call.role = "pitcher"
                        THEN season_results[i].pitcher_id
                        ELSE season_results[i].batter_id) }

\* the players of the results of the requested role
PlayersOfRole ==
    { p \in { season_results[i].pitcher_id : i \in 1..Len(season_results) }
            \cup { season_results[i].batter_id : i \in 1..Len(season_results) } :
        ResultsOf(p) # {} }

\* C25: summarize_mmi_by_player returns exactly one summary per distinct
\* player id among the results of the requested role; total_pitches is the
\* number of that player's results of the role, so the total_pitches add up
\* to the number of such results and results of the other role count
\* nowhere; and in each summary 1 <= total_games <= total_pitches and
\* extreme_mmi_count, the results with mmi > 3.0, <= high_mmi_count, those
\* with mmi > 2.0, <= total_pitches.
C25_OneSummaryPerPlayerOfRole ==
    summary_call.role # "" =>
        /\ { summaries[k].player_id : k \in 1..Len(summaries) } = PlayersOfRole
        /\ Len(summaries) = Cardinality(PlayersOfRole)
        /\ SumSeq([k \in 1..Len(summaries) |-> summaries[k].total_pitches])
              = Cardinality({ i \in 1..Len(season_results) :
                                season_results[i].role = summary_call.role })
        /\ \A k \in 1..Len(summaries) :
              /\ summaries[k].role = summary_call.role
              /\ summaries[k].total_pitches
                    = Cardinality(ResultsOf(summaries[k].player_id))
              /\ summaries[k].total_games
                    = Cardinality({ season_results[i].game_id :
                                      i \in ResultsOf(summaries[k].player_id) })
              /\ summaries[k].high_mmi_count
                    = Cardinality({ i \in ResultsOf(summaries[k].player_id) :
                                      FLess(FromInt(2), season_results[i].mmi) })
              /\ summaries[k].extreme_mmi_count
                    = Cardinality({ i \in ResultsOf(summaries[k].player_id) :
                                      FLess(FromInt(3), season_results[i].mmi) })
              /\ 1 <= summaries[k].total_games
              /\ summaries[k].total_games <= summaries[k].total_pitches
              /\ summaries[k].extreme_mmi_count <= summaries[k].high_mmi_count
              /\ summaries[k].high_mmi_count <= summaries[k].total_pitches

\* C25 witness: two pitchers summarized, one of them from two results of
\* two games, one above 3.0 and one at 2.0 exactly, which is not counted
C25_Witness ==
    /\ summary_call.role = "pitcher"
    /\ Len(summaries) = 2
    /\ \E k \in 1..2 :
          /\ summaries[k].total_pitches = 2
          /\ summaries[k].total_games = 2
          /\ summaries[k].high_mmi_count = 1
          /\ summaries[k].extreme_mmi_count = 1
          /\ \E i \in ResultsOf(summaries[k].player_id) :
                season_results[i].mmi = FromInt(2)

\* C25 second case: a batter summarized from one result while the list
\* holds results of role pitcher with the same batter_id
C25_OtherRoleLeftOut ==
    /\ summary_call.role = "batter"
    /\ Len(summaries) = 1
    /\ summaries[1].total_pitches = 1
    /\ Cardinality({ i \in 1..Len(season_results) :
            season_results[i].batter_id = summaries[1].player_id }) = 3

\* -------------------------------------------------------------------------
\* Specification of get_high_mmi_moments over the results of a game
\* -------------------------------------------------------------------------
\* MMI values below, at and above the thresholds asked for
MomentMMIValues ==
    { FromMilli(500), FromInt(2), FromMilli(2500), FromMilli(3500) }

\* the results of the pitches 1..n of one game, in any order of mmi
MomentResultLists ==
    UNION { { [i \in 1..n |->
                [pitch_id |-> "p", game_id |-> "g1", batter_id |-> "b1",
                 pitcher_id |-> "h1", inning |-> 1, mmi |-> v[i],
                 components |-> SeasonComponents(Micro),
                 timestamp |-> 0, role |-> "pitcher",
                 meta |-> [at_bat_index |-> 0, pitch_number |-> i]]] :
              v \in [1..n -> MomentMMIValues] } : n \in 0..MaxResults }

\* the thresholds: the default 2.0 and one between two values; the limits:
\* none, fewer than the results, the default 50
MomentThresholds == { FromInt(2), FromInt(3) }

MomentLimits == { 0, 1, 2, 50 }

\* moments = get_high_mmi_moments(mmi_results, threshold=threshold, limit=limit)
GetHighMMIMoments(threshold, limit) ==
    /\ moments_call' = [called |-> TRUE, threshold |-> threshold, limit |-> limit]
    /\ moments' = get_high_mmi_moments(season_results, threshold, limit)
    /\ UNCHANGED <<season_results, summary_call, summaries, notSum>>

InitMoments ==
    /\ LevIdle /\ ConcIdle /\ ScalerIdle /\ SetIdle /\ MmiIdle /\ ApiIdle
    /\ AggIdle
    /\ FeatIdle
    /\ WpIdle
    /\ season_results \in MomentResultLists
    /\ summary_call = NoSummaryCall
    /\ summaries = <<>>
    /\ moments_call = NoMomentsCall
    /\ moments = <<>>

NextMoments ==
    \/ \E threshold \in MomentThresholds, limit \in MomentLimits :
          GetHighMMIMoments(threshold, limit)

SpecMoments == InitMoments /\ [][NextMoments]_vars

\* the positions in season_results of the results at or above the threshold
AtOrAbove == { i \in 1..Len(season_results) :
                 ~FLess(season_results[i].mmi, moments_call.threshold) }

\* the positions in season_results of the results returned
Returned == { i \in 1..Len(season_results) :
                \E k \in 1..Len(moments) : moments[k] = season_results[i] }

\* the list returned: no more than limit results and as many as there are
\* at or above the threshold if those are fewer, each one a result given
\* with mmi >= threshold, no result twice, in non-increasing order of mmi,
\* and no result at or above the threshold left out that has a greater mmi
\* than one returned
TopMoments ==
    moments_call.called =>
        /\ Len(moments) = Min(moments_call.limit, Cardinality(AtOrAbove))
        /\ Cardinality(Returned) = Len(moments)
        /\ Returned \subseteq AtOrAbove
        /\ \A k \in 1..(Len(moments) - 1) :
              ~FLess(moments[k].mmi, moments[k + 1].mmi)
        /\ \A i \in AtOrAbove \ Returned : \A k \in 1..Len(moments) :
              ~FLess(moments[k].mmi, season_results[i].mmi)

\* C26: get_high_mmi_moments returns at most limit results, each with
\* mmi >= threshold, the boundary included, in non-increasing order of mmi,
\* such that no omitted result with mmi >= threshold has an mmi greater than
\* a returned one; the list given is left as it was.
C26_TopMomentsDescending ==
    /\ []TopMoments
    /\ [][season_results' = season_results]_vars

\* C26 witness: of three results in ascending order of mmi, the first at the
\* threshold, the two greatest were returned
C26_Witness ==
    /\ moments_call.called
    /\ moments_call.limit = 2
    /\ Len(season_results) = 3
    /\ season_results[1].mmi = moments_call.threshold
    /\ FLess(season_results[1].mmi, season_results[2].mmi)
    /\ FLess(season_results[2].mmi, season_results[3].mmi)
    /\ moments = <<season_results[3], season_results[2]>>

\* a result at the threshold itself was returned
C26_BoundaryReturned ==
    /\ moments_call.called
    /\ \E k \in 1..Len(moments) : moments[k].mmi = moments_call.threshold

\* -------------------------------------------------------------------------
\* Specification of compute_season_mmi and compute_game_mmi over a stream of
\* pitches
\* -------------------------------------------------------------------------
MaxStream == 3

\* league statistics with narrow distributions: the late pitches score above
\* 2.0, the first pitches below
NarrowLeagueStats ==
    to_league_stats(
        MMIScalerSet_fit(MMIScalerSet,
                         <<FromMilli(500), FromMilli(1500)>>,
                         <<FromMilli(500), FromMilli(1500)>>,
                         <<FromMilli(500), FromMilli(1500)>>,
                         <<FromMilli(500), FromMilli(1500)>>,
                         <<FromMilli(500), FromMilli(1500)>>,
                         2025, "regular", 0),
        2430, 2025, 0)

\* pitches of two games: in each a first pitch and a late pitch of the same
\* pitcher and batter, and in the first a late pitch of another pitcher to
\* another batter
StreamPitches ==
    { FirstPitch,
      LatePitch,
      [LatePitch EXCEPT !.pitcher_id = "h2", !.batter_id = "b2", !.pitch_id = "p2"],
      [FirstPitch EXCEPT !.game_id = "g2", !.pitch_id = "p3"],
      [LatePitch EXCEPT !.game_id = "g2", !.pitch_id = "p4"] }

PitchStreams == UNION { [1..n -> StreamPitches] : n \in 0..MaxStream }

AggRoles == {"pitcher", "batter", "umpire"}

\* results = compute_season_mmi(all_pitches, league_stats, role=role)
ComputeSeasonMMI(role) ==
    /\ agg_call' = [function |-> "compute_season_mmi", role |-> role,
                    outcome |-> compute_season_mmi(all_pitches, NarrowLeagueStats,
                                                   role, YearAt(clock), clock),
                    contexts |-> <<>>]
    /\ UNCHANGED <<all_pitches, notAgg>>

\* results = compute_game_mmi(game_id, pitches, league_stats, role=role),
\* the pitches being the whole stream
ComputeGameMMI(role) ==
    /\ \E r \in {compute_game_mmi("g1", all_pitches, NarrowLeagueStats, role,
                                   YearAt(clock), clock)} :
          agg_call' = [function |-> "compute_game_mmi", role |-> role,
                       outcome |-> IF r.ok THEN Ok(r.value.results) ELSE r,
                       contexts |-> IF r.ok THEN r.value.contexts ELSE <<>>]
    /\ UNCHANGED <<all_pitches, notAgg>>

InitSeason ==
    /\ LevIdle /\ ConcIdle /\ ScalerIdle /\ SetIdle /\ MmiIdle /\ ApiIdle
    /\ WpIdle /\ SumIdle /\ FeatIdle
    /\ all_pitches \in PitchStreams
    /\ agg_call = NoAggCall

NextSeason ==
    \/ \E role \in AggRoles : ComputeSeasonMMI(role)
    \/ \E role \in AggRoles : ComputeGameMMI(role)

SpecSeason == InitSeason /\ [][NextSeason]_vars

\* the pitches of a game in the order of the stream
PitchesOfGame(game_id) == SelectSeq(all_pitches, LAMBDA p : p.game_id = game_id)

\* what compute_game_mmi returns for the pitches of a game alone
GameAlone(game_id) ==
    compute_game_mmi(game_id, PitchesOfGame(game_id), NarrowLeagueStats,
                     agg_call.role, YearAt(clock), clock).value.results

\* the latest call is compute_season_mmi for a role there is
IsSeasonCall ==
    /\ agg_call.function = "compute_season_mmi"
    /\ agg_call.role \in {"pitcher", "batter"}

\* C27: compute_season_mmi returns one result per input pitch, and its
\* results for the pitches of a game are those compute_game_mmi returns for
\* the pitches of that game alone in their stream order, however the
\* pitches of other games are interleaved with them.
C27_GamesScoredIndependently ==
    IsSeasonCall =>
        /\ agg_call.outcome.ok
        /\ Len(agg_call.outcome.value) = Len(all_pitches)
        /\ \A i \in 1..Len(all_pitches) :
              SelectSeq(agg_call.outcome.value,
                        LAMBDA r : r.game_id = all_pitches[i].game_id)
                  = GameAlone(all_pitches[i].game_id)

\* C27 witness: a pitcher's pitches of one game before and after a pitch
\* of another game; the result of the third pitch, the second of its game,
\* is not the one that scoring the stream as one game gives it
C27_Witness ==
    /\ IsSeasonCall
    /\ agg_call.role = "pitcher"
    /\ Len(all_pitches) = 3
    /\ all_pitches[1].game_id = all_pitches[3].game_id
    /\ all_pitches[2].game_id # all_pitches[1].game_id
    /\ all_pitches[2].pitcher_id = all_pitches[1].pitcher_id
    /\ agg_call.outcome.ok
    /\ agg_call.outcome.value[2].components
          # compute_game_mmi("g1", all_pitches, NarrowLeagueStats, "pitcher",
                             YearAt(clock), clock).value.results[3].components

\* the latest call is compute_game_mmi for a role there is
IsGameCall ==
    /\ agg_call.function = "compute_game_mmi"
    /\ agg_call.role \in {"pitcher", "batter"}

\* the player of the i-th pitch under the role of the call
PlayerAt(i) ==
    IF agg_call.role = "pitcher" THEN all_pitches[i].pitcher_id
    ELSE all_pitches[i].batter_id

\* the context key of the running count under the role of the call
CounterKey ==
    IF agg_call.role = "pitcher" THEN "pitches_in_game" ELSE "pas_in_game"

\* what compute_pitch_mmi returns for the i-th pitch with the context of
\* the i-th turn, on the calculator compute_game_mmi builds
ScoredWithContext(i) ==
    compute_pitch_mmi(game_start(NarrowLeagueStats, YearAt(clock), clock).calculator,
                      all_pitches[i], agg_call.role, Some(agg_call.contexts[i]),
                      clock).value.result

\* C30: compute_game_mmi returns one result per input pitch in input order;
\* the context the i-th pitch is scored with has pitches_in_game, or
\* pas_in_game for role batter, equal to the number of pitches of the same
\* player among pitches 1..i, and high_mmi_moments_in_game equal to the
\* number of earlier pitches of that player in this call whose mmi exceeded
\* 2.0; both counters are non-decreasing per player along the game.
C30_ContextCountsPerPlayer ==
    IsGameCall =>
        /\ agg_call.outcome.ok
        /\ Len(agg_call.outcome.value) = Len(all_pitches)
        /\ Len(agg_call.contexts) = Len(all_pitches)
        /\ \A i \in 1..Len(all_pitches) :
              /\ agg_call.outcome.value[i].pitch_id = all_pitches[i].pitch_id
              /\ agg_call.outcome.value[i].game_id = all_pitches[i].game_id
              /\ agg_call.outcome.value[i].pitcher_id = all_pitches[i].pitcher_id
              /\ agg_call.outcome.value[i].batter_id = all_pitches[i].batter_id
              /\ agg_call.outcome.value[i] = ScoredWithContext(i)
              /\ DOMAIN agg_call.contexts[i]
                    = {CounterKey, "high_mmi_moments_in_game"}
              /\ agg_call.contexts[i][CounterKey]
                    = Cardinality({ j \in 1..i : PlayerAt(j) = PlayerAt(i) })
              /\ agg_call.contexts[i].high_mmi_moments_in_game
                    = Cardinality({ j \in 1..(i - 1) :
                        /\ PlayerAt(j) = PlayerAt(i)
                        /\ FLess(FromInt(2), agg_call.outcome.value[j].mmi) })
        /\ \A i \in 1..Len(all_pitches) : \A j \in i..Len(all_pitches) :
              PlayerAt(i) = PlayerAt(j) =>
                  /\ agg_call.contexts[i][CounterKey]
                        <= agg_call.contexts[j][CounterKey]
                  /\ agg_call.contexts[i].high_mmi_moments_in_game
                        <= agg_call.contexts[j].high_mmi_moments_in_game

\* C30 witness: a pitcher's second pitch comes third, after a pitch of
\* another pitcher; one of the pitcher's own pitches before it exceeded 2.0
\* and so did the other pitcher's
C30_Witness ==
    /\ IsGameCall
    /\ agg_call.role = "pitcher"
    /\ Len(all_pitches) = 3
    /\ PlayerAt(1) = PlayerAt(3)
    /\ PlayerAt(2) # PlayerAt(1)
    /\ FLess(FromInt(2), agg_call.outcome.value[1].mmi)
    /\ FLess(FromInt(2), agg_call.outcome.value[2].mmi)
    /\ agg_call.contexts[3]
          = [pitches_in_game |-> 2, high_mmi_moments_in_game |-> 1]

\* -------------------------------------------------------------------------
\* Specification of the Count methods and of calculate_pitcher_execution on
\* one pitch
\* -------------------------------------------------------------------------
MaxBalls == 3

MaxStrikes == 2

\* pitches of either half of the first inning, every count, every score up
\* to MaxScore a side, bases empty or loaded, none out or two out
FeatPitches ==
    { [Pitch(1, top, outs, bases, home, away) EXCEPT !.count = Count(b, s)] :
        top \in BOOLEAN, outs \in {0, 2},
        bases \in {EmptyBases, BaseState(TRUE, TRUE, TRUE)},
        home \in 0..MaxScore, away \in 0..MaxScore,
        b \in 0..MaxBalls, s \in 0..MaxStrikes }

\* the batter_woba argument of calculate_pitcher_execution, in thousandths
FeatWobas == {320, 400}

\* pitch.count.is_hitters_count()
IsHittersCount ==
    /\ feat_call' = [method |-> "is_hitters_count",
                     flag |-> is_hitters_count(feat_pitch.count), score |-> 0]
    /\ UNCHANGED <<feat_pitch, notFeat>>

\* pitch.count.is_pitchers_count()
IsPitchersCount ==
    /\ feat_call' = [method |-> "is_pitchers_count",
                     flag |-> is_pitchers_count(feat_pitch.count), score |-> 0]
    /\ UNCHANGED <<feat_pitch, notFeat>>

\* ExecutionWindowsCalculator().calculate_pitcher_execution(pitch, batter_woba)
CalculatePitcherExecution(batter_woba) ==
    /\ feat_call' = [method |-> "calculate_pitcher_execution", flag |-> FALSE,
                     score |-> calculate_pitcher_execution(feat_pitch, batter_woba),
                     batter_woba |-> batter_woba]
    /\ UNCHANGED <<feat_pitch, notFeat>>

InitFeatures ==
    /\ LevIdle /\ ConcIdle /\ ScalerIdle /\ SetIdle /\ MmiIdle /\ ApiIdle
    /\ WpIdle /\ SumIdle /\ AggIdle
    /\ feat_pitch \in FeatPitches
    /\ feat_call = NoFeatCall

NextFeatures ==
    \/ IsHittersCount
    \/ IsPitchersCount
    \/ \E batter_woba \in FeatWobas : CalculatePitcherExecution(batter_woba)

SpecFeatures == InitFeatures /\ [][NextFeatures]_vars

\* the score of the team in the field and of the team at bat
PitchingTeamScore ==
    IF feat_pitch.top_of_inning THEN feat_pitch.home_score
    ELSE feat_pitch.away_score

BattingTeamScore ==
    IF feat_pitch.top_of_inning THEN feat_pitch.away_score
    ELSE feat_pitch.home_score

\* the batter, count and base-out terms of the pitcher execution score
TermsBeforeScoreContext ==
    (feat_call.batter_woba * 1500) \div 320
    + (CASE feat_pitch.count.balls >= 2 /\ feat_pitch.count.strikes <= 1 -> 1500
         [] feat_pitch.count.strikes = 2 /\ feat_pitch.count.balls <= 1 -> 500
         [] OTHER -> 1000)
    + runners_on_base(feat_pitch.base_state) * 500
    + (2 - feat_pitch.outs) * 300

\* the latest call's score holds the +0.3 term, or holds no such term
HasScoreContextTerm == feat_call.score = TermsBeforeScoreContext + 300

HasNoScoreContextTerm == feat_call.score = TermsBeforeScoreContext

\* C28: the pitcher execution score includes the +0.3 score-context term
\* exactly when the pitching team's score is lower than the batting team's,
\* and not when the pitching team is tied or ahead.
C28_TermWhenPitchingTeamTrails ==
    feat_call.method = "calculate_pitcher_execution" =>
        IF PitchingTeamScore < BattingTeamScore THEN HasScoreContextTerm
        ELSE HasNoScoreContextTerm

\* C28, as the code has it: the term is there exactly when the batting team
\* trails, that is when the pitching team is ahead
C28_TermWhenBattingTeamTrails ==
    feat_call.method = "calculate_pitcher_execution" =>
        IF BattingTeamScore < PitchingTeamScore THEN HasScoreContextTerm
        ELSE HasNoScoreContextTerm

\* C29: over balls 0..3 and strikes 0..2, is_hitters_count is true exactly
\* for 3-0, 3-1 and 2-0, and is_pitchers_count exactly for 0-2 and 1-2.
C29_CountsAsListed ==
    /\ feat_call.method = "is_hitters_count" =>
          (feat_call.flag <=>
              feat_pitch.count \in {Count(3, 0), Count(3, 1), Count(2, 0)})
    /\ feat_call.method = "is_pitchers_count" =>
          (feat_call.flag <=>
              feat_pitch.count \in {Count(0, 2), Count(1, 2)})

\* C29, as the code has it: 2-1 is a hitter's count as well
C29_CountsWithTwoAndOne ==
    /\ feat_call.method = "is_hitters_count" =>
          (feat_call.flag <=>
              feat_pitch.count
                  \in {Count(3, 0), Count(3, 1), Count(2, 0), Count(2, 1)})
    /\ feat_call.method = "is_pitchers_count" =>
          (feat_call.flag <=>
              feat_pitch.count \in {Count(0, 2), Count(1, 2)})

====
